---------------------------- MODULE Spec2Model ----------------------------
(***************************************************************************)
(* Review / vote persistence and authorization layer of the course-review  *)
(* server: server.js (request handlers), lib/reviewsStore.js (the JSON     *)
(* file provider and the Supabase provider), lib/db.js (relational schema) *)
(* and the migration scripts under scripts/.                               *)
(*                                                                         *)
(* Conventions                                                             *)
(*  - A string that the code only tests for truthiness, lower-cases or     *)
(*    splits (an e-mail address) is a sequence of one-character strings;   *)
(*    null / undefined is the empty sequence, which is falsy like them.    *)
(*  - Date.now() is the variable now; 'r_'+Date.now() is the number now.   *)
(*  - A JavaScript value that reaches a response as true / false / null is *)
(*    the string of its JSON literal.                                      *)
(***************************************************************************)
EXTENDS Integers, Sequences, FiniteSets, TLC

VARIABLES
  env,             \* process.env and the client library, as the process starts
  usingSupabase,   \* provider chosen at process start
  sessions,        \* data/sessions.json: session id -> e-mail
  codes,           \* data/auth-codes.json: e-mail -> code and its created_at
  file,            \* data/reviews.json: course id -> sequence of reviews
  reviews,         \* Supabase table reviews (set of rows)
  review_replies,  \* Supabase table review_replies (set of rows)
  now,             \* Date.now()
  req,             \* the requests being handled, each at an await
  last,            \* the latest response, with the request it answers
  nreq,            \* requests started so far
  hist,            \* the responses so far, oldest first (kept by SpecUpvotes only)
  mig,             \* the migration script being run and how far it is
  vt               \* the vote updater applied to given counters

vars == <<env, usingSupabase, sessions, codes, file, reviews, review_replies, now, req, last, nreq, hist, vt, mig>>

---------------------------------------------------------------------------
(* Bounds *)

MaxCount == 2     \* largest initial counter value given to the vote updater
MaxHist == 2      \* vote transitions applied in a row to given counters
NProcs == 2       \* requests handled at the same time
MaxReqs == 3      \* requests started in one behaviour
MaxNow == 2          \* last value of the clock
MaxStored == 2       \* reviews in a stored list
MaxRuns == 2         \* runs of a migration script over one document
MaxMigTicks == 2     \* clock ticks while migrating

---------------------------------------------------------------------------
(* JavaScript helpers *)

Absent == "<absent>"          \* null or undefined, where the code reads a string

NullEmail == <<>>             \* null / undefined e-mail or session id

Max(a, b) == IF a >= b THEN a ELSE b

MinOf(S) == CHOOSE x \in S : \A y \in S : x <= y

LowerChar(c) ==
  CASE c = "A" -> "a"
    [] c = "B" -> "b"
    [] c = "J" -> "j"
    [] c = "O" -> "o"
    [] OTHER -> c

\* String(x).toLowerCase()
ToLowerCase(s) == [i \in 1..Len(s) |-> LowerChar(s[i])]

\* String(x).split('@')[0]
LocalPart(s) ==
  LET at == {i \in 1..Len(s) : s[i] = "@"}
  IN IF at = {} THEN s ELSE SubSeq(s, 1, MinOf(at) - 1)

\* !x for a string-or-null request field
Falsy(x) == x = Absent \/ x = ""

---------------------------------------------------------------------------
(* Vote updater: the closure passed to updateVoteCounts *)

VoteUpdaterNoFloor(prev, vote, c) ==
  LET u == c.upvotes
      d == c.downvotes
  IN IF prev = vote
       THEN IF vote = "up" THEN [upvotes |-> u - 1, downvotes |-> d]
                           ELSE [upvotes |-> u, downvotes |-> d - 1]
     ELSE IF Falsy(prev)
       THEN IF vote = "up" THEN [upvotes |-> u + 1, downvotes |-> d]
                           ELSE [upvotes |-> u, downvotes |-> d + 1]
     ELSE IF prev = "up" THEN [upvotes |-> u - 1, downvotes |-> d + 1]
                         ELSE [upvotes |-> u + 1, downvotes |-> d - 1]

VoteUpdaterNoSwitchDecrement(prev, vote, c) ==
  LET u == c.upvotes
      d == c.downvotes
  IN IF prev = vote
       THEN IF vote = "up" THEN [upvotes |-> Max(0, u - 1), downvotes |-> d]
                           ELSE [upvotes |-> u, downvotes |-> Max(0, d - 1)]
     ELSE IF vote = "up" THEN [upvotes |-> u + 1, downvotes |-> d]
                         ELSE [upvotes |-> u, downvotes |-> d + 1]

VoteUpdaterRetractBoth(prev, vote, c) ==
  LET u == c.upvotes
      d == c.downvotes
  IN IF prev = vote
       THEN [upvotes |-> Max(0, u - 1), downvotes |-> Max(0, d - 1)]
     ELSE IF Falsy(prev)
       THEN IF vote = "up" THEN [upvotes |-> u + 1, downvotes |-> d]
                           ELSE [upvotes |-> u, downvotes |-> d + 1]
     ELSE LET u1 == IF prev = "up" THEN Max(0, u - 1) ELSE u
              d1 == IF prev = "up" THEN d ELSE Max(0, d - 1)
          IN IF vote = "up" THEN [upvotes |-> u1 + 1, downvotes |-> d1]
                            ELSE [upvotes |-> u1, downvotes |-> d1 + 1]

VoteUpdaterNewVoteTakesOther(prev, vote, c) ==
  LET u == c.upvotes
      d == c.downvotes
  IN IF prev = vote
       THEN IF vote = "up" THEN [upvotes |-> Max(0, u - 1), downvotes |-> d]
                           ELSE [upvotes |-> u, downvotes |-> Max(0, d - 1)]
     ELSE LET u1 == IF vote = "down" THEN Max(0, u - 1) ELSE u
              d1 == IF vote = "down" THEN d ELSE Max(0, d - 1)
          IN IF vote = "up" THEN [upvotes |-> u1 + 1, downvotes |-> d1]
                            ELSE [upvotes |-> u1, downvotes |-> d1 + 1]

VoteUpdaterSwitchNoFloor(prev, vote, c) ==
  LET u == c.upvotes
      d == c.downvotes
  IN IF prev = vote
       THEN IF vote = "up" THEN [upvotes |-> Max(0, u - 1), downvotes |-> d]
                           ELSE [upvotes |-> u, downvotes |-> Max(0, d - 1)]
     ELSE IF Falsy(prev)
       THEN IF vote = "up" THEN [upvotes |-> u + 1, downvotes |-> d]
                           ELSE [upvotes |-> u, downvotes |-> d + 1]
     ELSE IF prev = "up" THEN [upvotes |-> u - 1, downvotes |-> d + 1]
                         ELSE [upvotes |-> u + 1, downvotes |-> d - 1]

VoteUpdater(prev, vote, c) ==
  LET u == c.upvotes
      d == c.downvotes
  IN IF prev = vote
       THEN IF vote = "up" THEN [upvotes |-> Max(0, u - 1), downvotes |-> d]
                           ELSE [upvotes |-> u, downvotes |-> Max(0, d - 1)]
     ELSE IF Falsy(prev)
       THEN IF vote = "up" THEN [upvotes |-> u + 1, downvotes |-> d]
                           ELSE [upvotes |-> u, downvotes |-> d + 1]
     ELSE LET u1 == IF prev = "up" THEN Max(0, u - 1) ELSE u
              d1 == IF prev = "up" THEN d ELSE Max(0, d - 1)
          IN IF vote = "up" THEN [upvotes |-> u1 + 1, downvotes |-> d1]
                            ELSE [upvotes |-> u1, downvotes |-> d1 + 1]

\* the values the vote handler's validation lets through
ValidVotes == {"up", "down"}
ValidPrevs == {Absent, "up", "down"}

---------------------------------------------------------------------------
(* Identities *)

AnnEmail == <<"a", "@", "o">>          \* a signed-in user
JulesEmail == <<"j", "@", "o">>        \* 'jules328@ohs.stanford.edu'

AdminList == {}                        \* ADMIN_EMAIL / ADMIN_EMAILS, not set

NoSid == ""                            \* no ohs_sid cookie

\* sessions.json as verify-code leaves it: e-mails trimmed and lower-cased
SessionsFile == [s \in {"sidA", "sidJ"} |->
                   IF s = "sidA" THEN AnnEmail ELSE JulesEmail]

NoCode == <<>>                         \* codes[email] undefined

\* auth-codes.json with no code in it
NoCodes == [e \in {AnnEmail, JulesEmail} |-> NoCode]

\* getSession(req), then sess && sess.email
GetSessionEmail(sid) ==
  IF sid # NoSid /\ sid \in DOMAIN sessions THEN sessions[sid] ELSE NullEmail

\* requireAuth lets the request through to its route
Authenticated(sid) == GetSessionEmail(sid) # NullEmail

IsAdmin(sid) ==
  LET email == ToLowerCase(GetSessionEmail(sid))
  IN IF email = NullEmail THEN FALSE
     ELSE IF email \in AdminList THEN TRUE
     ELSE email = JulesEmail

\* isAdmin(req) || (sess && String(sess.email).toLowerCase() === '...'),
\* as the JavaScript value it evaluates to
AllowAdmin(sid) ==
  IF IsAdmin(sid) THEN "true"
  ELSE IF GetSessionEmail(sid) = NullEmail THEN "null"
  ELSE IF ToLowerCase(GetSessionEmail(sid)) = JulesEmail THEN "true" ELSE "false"

Truthy(v) == v = "true"

\* the catch blocks of the vote and reply handlers
ErrorStatus(message) == IF message = "review not found" THEN 404 ELSE 500

---------------------------------------------------------------------------
(* Request validation and entity construction *)

MinTextLen == 6
MinReplyLen == 1
MinRating == 1
MaxRating == 5

MaxOf(S) == CHOOSE x \in S : \A y \in S : x >= y

\* text.trim()
Trim(s) ==
  LET ns == {i \in 1..Len(s) : s[i] # " "}
  IN IF ns = {} THEN <<>> ELSE SubSeq(s, MinOf(ns), MaxOf(ns))

\* A rating of a request body is <<>> (undefined or null), <<n>> (the JSON
\* number n), <<"boolean", b>> or <<"string", s>>.
\* Number(rating): <<n>> for a finite number, <<>> for NaN
DigitValue(ch) ==
  CASE ch = "0" -> 0 [] ch = "1" -> 1 [] ch = "2" -> 2 [] ch = "3" -> 3 [] ch = "4" -> 4
    [] ch = "5" -> 5 [] ch = "6" -> 6 [] ch = "7" -> 7 [] ch = "8" -> 8 [] ch = "9" -> 9
    [] OTHER -> 10

RECURSIVE DecimalValue(_, _, _)
DecimalValue(s, i, acc) ==
  IF i > Len(s) THEN <<acc>>
  ELSE IF DigitValue(s[i]) = 10 THEN <<>>
  ELSE DecimalValue(s, i + 1, 10 * acc + DigitValue(s[i]))

ToNumber(rating) ==
  IF Len(rating) = 1 THEN rating
  ELSE IF rating[1] = "boolean" THEN (IF rating[2] THEN <<1>> ELSE <<0>>)
  ELSE DecimalValue(Trim(rating[2]), 1, 0)

ValidCreate(body) ==
  /\ body.text # <<>>
  /\ Len(Trim(body.text)) >= MinTextLen
  /\ (body.rating # <<>> =>
        LET rnum == ToNumber(body.rating)
        IN rnum # <<>> /\ rnum[1] >= MinRating /\ rnum[1] <= MaxRating)

ValidReply(body) ==
  /\ body.text # <<>>
  /\ Len(Trim(body.text)) >= MinReplyLen

VoteCheckAcceptsAll(body) == TRUE

\* the vote handler's two early returns
ValidVoteBody(body) ==
  /\ ~Falsy(body.vote)
  /\ body.vote \in {"up", "down"}
  /\ body.prev \in {Absent, "up", "down"}

\* the display author both write handlers compute
AuthorOf(sid, body) ==
  IF body.hasAuthor THEN Trim(body.author)
  ELSE IF GetSessionEmail(sid) # NullEmail THEN LocalPart(GetSessionEmail(sid))
  ELSE NullEmail

BuildReviewTrustsBody(course, sid, body, t) ==
  [id |-> t, course_id |-> course,
   rating |-> IF body.rating = <<>> THEN <<>> ELSE ToNumber(body.rating),
   author |-> AuthorOf(sid, body), text |-> Trim(body.text),
   created_at |-> t, status |-> "published", replies |-> <<>>,
   poster_email |-> IF "poster_email" \in DOMAIN body THEN body.poster_email
                    ELSE GetSessionEmail(sid),
   poster_sid |-> IF "poster_sid" \in DOMAIN body THEN body.poster_sid ELSE sid,
   upvotes |-> 0, downvotes |-> 0]

BuildReview(course, sid, body, t) ==
  [id |-> t, course_id |-> course,
   rating |-> IF body.rating = <<>> THEN <<>> ELSE ToNumber(body.rating),
   author |-> AuthorOf(sid, body), text |-> Trim(body.text),
   created_at |-> t, status |-> "published", replies |-> <<>>,
   poster_email |-> GetSessionEmail(sid), poster_sid |-> sid,
   upvotes |-> 0, downvotes |-> 0]

BuildReply(rid, sid, body, t) ==
  [id |-> t, review_id |-> rid, author |-> AuthorOf(sid, body),
   text |-> Trim(body.text), created_at |-> t,
   poster_email |-> GetSessionEmail(sid), poster_sid |-> sid]

AnyoneMayDelete(sid, review) == TRUE

MayDeleteExactCase(sid, review) ==
  LET sessionEmail == ToLowerCase(GetSessionEmail(sid))
      posterEmail == IF "poster_email" \in DOMAIN review
                       THEN review.poster_email ELSE NullEmail
  IN \/ Truthy(AllowAdmin(sid))
     \/ (sessionEmail # NullEmail /\ posterEmail # NullEmail /\ sessionEmail = posterEmail)

\* the delete handler's test of the loaded review against the requester;
\* review.poster_email is undefined on a review stored without the key
MayDelete(sid, review) ==
  LET sessionEmail == ToLowerCase(GetSessionEmail(sid))
      posterEmail == IF "poster_email" \in DOMAIN review
                       THEN ToLowerCase(review.poster_email) ELSE NullEmail
  IN \/ Truthy(AllowAdmin(sid))
     \/ (sessionEmail # NullEmail /\ posterEmail # NullEmail /\ sessionEmail = posterEmail)

---------------------------------------------------------------------------
(* JSON file provider (jsonProvider): every call reads the whole file,     *)
(* changes the structure in memory and writes the whole file back, without *)
(* awaiting anything in between.                                           *)

\* list.findIndex(x => x.id === reviewId) + 1; 0 when there is none
FindIndex(list, rid) ==
  LET m == {i \in 1..Len(list) : list[i].id = rid}
  IN IF m = {} THEN 0 ELSE MinOf(m)

RemoveAt(list, i) == SubSeq(list, 1, i - 1) \o SubSeq(list, i + 1, Len(list))

JsonCreateDropsReview(f, course, review) == f

JsonCreatePushesReview(f, course, review) ==
  [f EXCEPT ![course] = Append(@, review)]

JsonCreateReview(f, course, review) ==
  [f EXCEPT ![course] = <<review>> \o @]

JsonAddReply(f, course, rid, reply) ==
  LET i == FindIndex(f[course], rid)
  IN [f EXCEPT ![course][i].replies = <<reply>> \o @]

JsonUpdateKeepsFile(f, course, rid, prev, vote) == f

JsonUpdateEmptiesReplies(f, course, rid, prev, vote) ==
  LET i == FindIndex(f[course], rid)
      r == f[course][i]
      next == VoteUpdater(prev, vote, [upvotes |-> r.upvotes, downvotes |-> r.downvotes])
  IN [f EXCEPT ![course][i].upvotes = next.upvotes,
               ![course][i].downvotes = next.downvotes,
               ![course][i].replies = <<>>]

JsonUpdateVoteCounts(f, course, rid, prev, vote) ==
  LET i == FindIndex(f[course], rid)
      r == f[course][i]
      next == VoteUpdater(prev, vote, [upvotes |-> r.upvotes, downvotes |-> r.downvotes])
  IN [f EXCEPT ![course][i].upvotes = next.upvotes,
               ![course][i].downvotes = next.downvotes]

JsonDeleteReview(f, course, rid) ==
  LET i == FindIndex(f[course], rid)
  IN IF i = 0 THEN f ELSE [f EXCEPT ![course] = RemoveAt(@, i)]

\* what jsonProvider.deleteReview returns: false if (idx === -1), else true
JsonDeleteReviewReturns(f, course, rid) == FindIndex(f[course], rid) # 0

---------------------------------------------------------------------------
(* Supabase provider: tables reviews(id primary key, ...) and              *)
(* review_replies(id primary key, review_id references reviews(id) on      *)
(* delete cascade, ...); every call is one or two awaited statements.      *)

\* the columns of a review row.  The handler sends the review with its empty
\* replies list; the insert is taken to leave that key out of the row.
RowOf(review) == [k \in DOMAIN review \ {"replies"} |-> review[k]]

MatchingAnyCourse(rows, course, rid) == {r \in rows : r.id = rid}

\* .eq('course_id', courseId).eq('id', reviewId)
Matching(rows, course, rid) == {r \in rows : r.course_id = course /\ r.id = rid}

\* insert(review) violates the primary key
ReviewInsertFails(rows, review) == \E r \in rows : r.id = review.id

ReplyInsertFailsOnKeyOnly(rows, replyRows, reply) == \E x \in replyRows : x.id = reply.id

\* insert(reply) violates the primary key or the foreign key
ReplyInsertFails(rows, replyRows, reply) ==
  \/ \E x \in replyRows : x.id = reply.id
  \/ ~ \E r \in rows : r.id = reply.review_id

SupaUpdate(rows, course, rid, next) ==
  {IF r \in Matching(rows, course, rid)
     THEN [r EXCEPT !.upvotes = next.upvotes, !.downvotes = next.downvotes]
     ELSE r : r \in rows}

\* delete().eq('course_id', ...).eq('id', ...), with the cascade of the schema
SupaDelete(rows, replyRows, course, rid) ==
  LET gone == Matching(rows, course, rid)
  IN [reviews |-> rows \ gone,
      review_replies |-> {x \in replyRows : ~ \E r \in gone : r.id = x.review_id}]

\* what the Supabase deleteReview returns when the statement raises no error
SupaDeleteReviewReturns(rows, course, rid) == TRUE

---------------------------------------------------------------------------
(* Requests *)

Procs == 1..NProcs
Courses == {"cs101", "ma201"}
SIDs == {NoSid, "sidA", "sidJ"}
ReviewIds == 1..MaxNow

GoodText == <<"g", "r", "e", "a", "t", "!">>
ShortText == <<" ", "o", "k", " ">>

CreateBodies ==
  {[text |-> GoodText, rating |-> <<5>>, hasAuthor |-> FALSE, author |-> <<>>],
   [text |-> ShortText, rating |-> <<5>>, hasAuthor |-> FALSE, author |-> <<>>],
   [text |-> GoodText, rating |-> <<6>>, hasAuthor |-> FALSE, author |-> <<>>]}

ReplyBodies ==
  {[text |-> <<"y">>, hasAuthor |-> FALSE, author |-> <<>>],
   [text |-> <<" ">>, hasAuthor |-> FALSE, author |-> <<>>]}

VoteBodies ==
  [vote : {"up", "down"}, prev : {Absent, "up", "down"}]
    \cup {[vote |-> "sideways", prev |-> "up"], [vote |-> Absent, prev |-> Absent],
          [vote |-> "down", prev |-> "none"]}

IdleReq ==
  [kind |-> "idle", pc |-> "idle", course |-> "", rid |-> 0, sid |-> NoSid,
   body |-> <<>>, local |-> <<>>, status |-> 0, out |-> <<>>]

NewReq(kind, course, rid, sid, body) ==
  [kind |-> kind, pc |-> "start", course |-> course, rid |-> rid, sid |-> sid,
   body |-> body, local |-> <<>>, status |-> 0, out |-> <<>>]

\* res.status(status).json(out)
Respond(r, status, out) == [r EXCEPT !.pc = "done", !.status = status, !.out = out]

\* a request starts in the first free slot
CanStart(p) ==
  /\ nreq < MaxReqs
  /\ req[p].pc = "idle"
  /\ \A q \in Procs : q < p => req[q].pc # "idle"

Tick ==
  /\ now < MaxNow
  /\ now' = now + 1
  /\ UNCHANGED <<env, usingSupabase, sessions, codes, file, reviews, review_replies, req, last, nreq, vt, mig>>

\* requireAuth: a request without a session is redirected to the login page
\* and reaches no route.  (Vote requests carry no identity into their
\* handler; they are modelled from the point where requireAuth let them by.)
RequireAuthRedirect(kind, course, rid, sid) ==
  /\ ~Authenticated(sid)
  /\ nreq < MaxReqs
  /\ last' = Respond(NewReq(kind, course, rid, sid, <<>>), 302, <<>>)
  /\ nreq' = nreq + 1
  /\ UNCHANGED <<env, usingSupabase, sessions, codes, file, reviews, review_replies, now, req, vt, mig>>

---------------------------------------------------------------------------
(* Handlers over the JSON file provider.  The provider's functions await   *)
(* nothing, so a handler runs from its first line to its response without  *)
(* another handler running in between.                                     *)

DocCreate(course, sid, body) ==
  /\ ~usingSupabase
  /\ Authenticated(sid)
  /\ nreq < MaxReqs
  /\ LET r == NewReq("create", course, 0, sid, body)
         review == BuildReview(course, sid, body, now)
     IN IF ~ValidCreate(body)
          THEN /\ last' = Respond(r, 400, <<>>)
               /\ file' = file
          ELSE /\ file' = JsonCreateReview(file, course, review)
               /\ last' = Respond(r, 201, review)
  /\ nreq' = nreq + 1
  /\ UNCHANGED <<env, usingSupabase, sessions, codes, reviews, review_replies, now, req, vt, mig>>

DocVote(course, rid, body) ==
  /\ ~usingSupabase
  /\ nreq < MaxReqs
  /\ LET r == NewReq("vote", course, rid, NoSid, body)
         i == FindIndex(file[course], rid)
         f == JsonUpdateVoteCounts(file, course, rid, body.prev, body.vote)
     IN IF ~ValidVoteBody(body)
          THEN /\ last' = Respond(r, 400, <<>>)
               /\ file' = file
        ELSE IF i = 0
          THEN /\ last' = Respond(r, ErrorStatus("review not found"), <<>>)
               /\ file' = file
          ELSE /\ file' = f
               /\ last' = Respond(r, 200, [upvotes |-> f[course][i].upvotes,
                                           downvotes |-> f[course][i].downvotes])
  /\ nreq' = nreq + 1
  /\ UNCHANGED <<env, usingSupabase, sessions, codes, reviews, review_replies, now, req, vt, mig>>

DocReply(course, rid, sid, body) ==
  /\ ~usingSupabase
  /\ Authenticated(sid)
  /\ nreq < MaxReqs
  /\ LET r == NewReq("reply", course, rid, sid, body)
         reply == BuildReply(rid, sid, body, now)
     IN IF ~ValidReply(body)
          THEN /\ last' = Respond(r, 400, <<>>)
               /\ file' = file
        ELSE IF FindIndex(file[course], rid) = 0
          THEN /\ last' = Respond(r, 404, <<>>)
               /\ file' = file
          ELSE /\ file' = JsonAddReply(file, course, rid, reply)
               /\ last' = Respond(r, 201, reply)
  /\ nreq' = nreq + 1
  /\ UNCHANGED <<env, usingSupabase, sessions, codes, reviews, review_replies, now, req, vt, mig>>

DocDelete(course, rid, sid) ==
  /\ ~usingSupabase
  /\ Authenticated(sid)
  /\ nreq < MaxReqs
  /\ LET r == NewReq("delete", course, rid, sid, <<>>)
         i == FindIndex(file[course], rid)
     IN IF i = 0
          THEN /\ last' = Respond(r, 404, <<>>)
               /\ file' = file
        ELSE IF ~MayDelete(sid, file[course][i])
          THEN /\ last' = Respond([r EXCEPT !.local = file[course][i]], 403, <<>>)
               /\ file' = file
          ELSE /\ file' = JsonDeleteReview(file, course, rid)
               /\ last' = Respond([r EXCEPT !.local = file[course][i]], 200, <<>>)
  /\ nreq' = nreq + 1
  /\ UNCHANGED <<env, usingSupabase, sessions, codes, reviews, review_replies, now, req, vt, mig>>

---------------------------------------------------------------------------
(* Handlers over the Supabase provider.  Every statement is awaited, so    *)
(* other handlers run between a handler's statements.                      *)

RelCreateStart(p, course, sid, body) ==
  /\ usingSupabase
  /\ Authenticated(sid)
  /\ CanStart(p)
  /\ LET r == NewReq("create", course, 0, sid, body)
     IN IF ~ValidCreate(body)
          THEN /\ last' = Respond(r, 400, <<>>)
               /\ req' = req
          ELSE /\ req' = [req EXCEPT ![p] =
                    [r EXCEPT !.pc = "insert", !.local = BuildReview(course, sid, body, now)]]
               /\ last' = last
  /\ nreq' = nreq + 1
  /\ UNCHANGED <<env, usingSupabase, sessions, codes, file, reviews, review_replies, now, vt, mig>>

\* await reviewsStore.createReview(slug, review).  The object inserted has
\* the key replies, which is no column of the reviews table as the provider
\* documents it: the insert is refused there, and goes through only where
\* the table has been given such a column.
RelCreateInsert(p) ==
  /\ req[p].kind = "create" /\ req[p].pc = "insert"
  /\ \/ /\ last' = Respond(req[p], 500, <<>>)
        /\ reviews' = reviews
     \/ IF ReviewInsertFails(reviews, req[p].local)
          THEN /\ last' = Respond(req[p], 500, <<>>)
               /\ reviews' = reviews
          ELSE /\ reviews' = reviews \cup {RowOf(req[p].local)}
               /\ last' = Respond(req[p], 201, req[p].local)
  /\ req' = [req EXCEPT ![p] = IdleReq]
  /\ UNCHANGED <<env, usingSupabase, sessions, codes, file, review_replies, now, nreq, vt, mig>>

RelVoteFetch(p, course, rid, body) ==
  /\ usingSupabase
  /\ CanStart(p)
  /\ LET r == NewReq("vote", course, rid, NoSid, body)
         found == Matching(reviews, course, rid)
     IN IF ~ValidVoteBody(body)
          THEN /\ last' = Respond(r, 400, <<>>)
               /\ req' = req
        ELSE IF found = {}
          THEN /\ last' = Respond(r, ErrorStatus("no rows returned"), <<>>)
               /\ req' = req
          ELSE LET data == CHOOSE x \in found : TRUE
               IN /\ req' = [req EXCEPT ![p] =
                       [r EXCEPT !.pc = "update",
                                 !.local = [upvotes |-> data.upvotes,
                                            downvotes |-> data.downvotes]]]
                  /\ last' = last
  /\ nreq' = nreq + 1
  /\ UNCHANGED <<env, usingSupabase, sessions, codes, file, reviews, review_replies, now, vt, mig>>

RelVotePersist(p) ==
  /\ req[p].kind = "vote" /\ req[p].pc = "update"
  /\ LET next == VoteUpdater(req[p].body.prev, req[p].body.vote, req[p].local)
     IN /\ reviews' = SupaUpdate(reviews, req[p].course, req[p].rid, next)
        /\ last' = Respond(req[p], 200, next)
  /\ req' = [req EXCEPT ![p] = IdleReq]
  /\ UNCHANGED <<env, usingSupabase, sessions, codes, file, review_replies, now, nreq, vt, mig>>

RelReplyStart(p, course, rid, sid, body) ==
  /\ usingSupabase
  /\ Authenticated(sid)
  /\ CanStart(p)
  /\ LET r == NewReq("reply", course, rid, sid, body)
     IN IF ~ValidReply(body)
          THEN /\ last' = Respond(r, 400, <<>>)
               /\ req' = req
          ELSE /\ req' = [req EXCEPT ![p] =
                    [r EXCEPT !.pc = "getReview", !.local = BuildReply(rid, sid, body, now)]]
               /\ last' = last
  /\ nreq' = nreq + 1
  /\ UNCHANGED <<env, usingSupabase, sessions, codes, file, reviews, review_replies, now, vt, mig>>

RelReplyCheck(p) ==
  /\ req[p].kind = "reply" /\ req[p].pc = "getReview"
  /\ IF Matching(reviews, req[p].course, req[p].rid) = {}
       THEN /\ last' = Respond(req[p], 404, <<>>)
            /\ req' = [req EXCEPT ![p] = IdleReq]
       ELSE /\ req' = [req EXCEPT ![p].pc = "addReply"]
            /\ last' = last
  /\ UNCHANGED <<env, usingSupabase, sessions, codes, file, reviews, review_replies, now, nreq, vt, mig>>

RelReplyInsert(p) ==
  /\ req[p].kind = "reply" /\ req[p].pc = "addReply"
  /\ IF ReplyInsertFails(reviews, review_replies, req[p].local)
       THEN /\ last' = Respond(req[p], ErrorStatus("violates a constraint"), <<>>)
            /\ review_replies' = review_replies
       ELSE /\ review_replies' = review_replies \cup {req[p].local}
            /\ last' = Respond(req[p], 201, req[p].local)
  /\ req' = [req EXCEPT ![p] = IdleReq]
  /\ UNCHANGED <<env, usingSupabase, sessions, codes, file, reviews, now, nreq, vt, mig>>

RelDeleteLoad(p, course, rid, sid) ==
  /\ usingSupabase
  /\ Authenticated(sid)
  /\ CanStart(p)
  /\ LET r == NewReq("delete", course, rid, sid, <<>>)
         found == Matching(reviews, course, rid)
     IN IF found = {}
          THEN /\ last' = Respond(r, 404, <<>>)
               /\ req' = req
          ELSE LET review == CHOOSE x \in found : TRUE
               IN IF ~MayDelete(sid, review)
                    THEN /\ last' = Respond([r EXCEPT !.local = review], 403, <<>>)
                         /\ req' = req
                    ELSE /\ req' = [req EXCEPT ![p] =
                              [r EXCEPT !.pc = "deleteReview", !.local = review]]
                         /\ last' = last
  /\ nreq' = nreq + 1
  /\ UNCHANGED <<env, usingSupabase, sessions, codes, file, reviews, review_replies, now, vt, mig>>

RelDeletePerform(p) ==
  /\ req[p].kind = "delete" /\ req[p].pc = "deleteReview"
  /\ LET after == SupaDelete(reviews, review_replies, req[p].course, req[p].rid)
     IN /\ reviews' = after.reviews
        /\ review_replies' = after.review_replies
  /\ last' = Respond(req[p], 200, <<>>)
  /\ req' = [req EXCEPT ![p] = IdleReq]
  /\ UNCHANGED <<env, usingSupabase, sessions, codes, file, now, nreq, vt, mig>>

---------------------------------------------------------------------------
(* Provider selection, lib/reviewsStore.js: made once, as the module loads *)

EnvValues == {<<>>, <<"x">>}

\* client: require('@supabase/supabase-js') and createClient(url, key) return
\* without throwing
Envs ==
  [SUPABASE_URL : EnvValues, SUPABASE_SERVICE_KEY : EnvValues,
   SUPABASE_ANON_KEY : EnvValues, client : BOOLEAN]

\* a || b
OrElse(a, b) == IF a # <<>> THEN a ELSE b

\* "null" or the Supabase provider object
MakeSupabaseProvider(e) ==
  LET url == e.SUPABASE_URL
      key == OrElse(e.SUPABASE_SERVICE_KEY, e.SUPABASE_ANON_KEY)
  IN  IF url = <<>> \/ key = <<>> THEN "null"
      ELSE IF ~e.client THEN "null"
      ELSE "supabase"

\* const provider = supa || jsonProvider; usingSupabase: !!supa
UsingSupabaseOf(e) == MakeSupabaseProvider(e) # "null"

\* README, Configure environment: both variables set, client installed
ConfiguredEnv ==
  [SUPABASE_URL |-> <<"x">>, SUPABASE_SERVICE_KEY |-> <<"x">>,
   SUPABASE_ANON_KEY |-> <<>>, client |-> TRUE]

\* no .env file
BareEnv ==
  [SUPABASE_URL |-> <<>>, SUPABASE_SERVICE_KEY |-> <<>>,
   SUPABASE_ANON_KEY |-> <<>>, client |-> TRUE]

---------------------------------------------------------------------------
(* The server *)

MigIdle == [script |-> "none", run |-> 0, pc |-> "idle", todo |-> <<>>, cur |-> <<>>,
            rows |-> <<>>, once |-> <<>>, how |-> "none", aborted |-> FALSE]

VtIdle == [c0 |-> [upvotes |-> 0, downvotes |-> 0],
           c |-> [upvotes |-> 0, downvotes |-> 0], hist |-> <<>>]

Init ==
  /\ env \in {ConfiguredEnv, BareEnv}
  /\ usingSupabase = UsingSupabaseOf(env)
  /\ sessions = SessionsFile
  /\ codes = NoCodes
  /\ file = [c \in Courses |-> <<>>]
  /\ reviews = {}
  /\ review_replies = {}
  /\ now = 1
  /\ req = [p \in Procs |-> IdleReq]
  /\ last = IdleReq
  /\ nreq = 0
  /\ hist = <<>>
  /\ vt = VtIdle
  /\ mig = MigIdle

Next ==
  \/ Tick /\ UNCHANGED hist
  \/ \E kind \in {"create", "reply", "delete"}, course \in Courses, rid \in ReviewIds,
        sid \in SIDs :
       RequireAuthRedirect(kind, course, rid, sid) /\ UNCHANGED hist
  \/ \E course \in Courses, sid \in SIDs, body \in CreateBodies :
       DocCreate(course, sid, body) /\ UNCHANGED hist
  \/ \E course \in Courses, rid \in ReviewIds, body \in VoteBodies :
       DocVote(course, rid, body) /\ UNCHANGED hist
  \/ \E course \in Courses, rid \in ReviewIds, sid \in SIDs, body \in ReplyBodies :
       DocReply(course, rid, sid, body) /\ UNCHANGED hist
  \/ \E course \in Courses, rid \in ReviewIds, sid \in SIDs :
       DocDelete(course, rid, sid) /\ UNCHANGED hist
  \/ \E p \in Procs, course \in Courses, sid \in SIDs, body \in CreateBodies :
       RelCreateStart(p, course, sid, body) /\ UNCHANGED hist
  \/ \E p \in Procs : RelCreateInsert(p) /\ UNCHANGED hist
  \/ \E p \in Procs, course \in Courses, rid \in ReviewIds, body \in VoteBodies :
       RelVoteFetch(p, course, rid, body) /\ UNCHANGED hist
  \/ \E p \in Procs : RelVotePersist(p) /\ UNCHANGED hist
  \/ \E p \in Procs, course \in Courses, rid \in ReviewIds, sid \in SIDs, body \in ReplyBodies :
       RelReplyStart(p, course, rid, sid, body) /\ UNCHANGED hist
  \/ \E p \in Procs : RelReplyCheck(p) /\ UNCHANGED hist
  \/ \E p \in Procs : RelReplyInsert(p) /\ UNCHANGED hist
  \/ \E p \in Procs, course \in Courses, rid \in ReviewIds, sid \in SIDs :
       RelDeleteLoad(p, course, rid, sid) /\ UNCHANGED hist
  \/ \E p \in Procs : RelDeletePerform(p) /\ UNCHANGED hist

Spec == Init /\ [][Next]_vars

\* responses sent so far
Completed(n, r) == n - Cardinality({p \in Procs : r[p].pc # "idle"})

\* this step sends a response
Responds == Completed(nreq', req') > Completed(nreq, req)

---------------------------------------------------------------------------
(* New up-votes only: one course, one signed-in user, every vote request   *)
(* {vote: 'up', prev: null}; the responses are recorded in hist.           *)

OneCourse == "cs101"
OneBody == [text |-> GoodText, rating |-> <<5>>, hasAuthor |-> FALSE, author |-> <<>>]
NewUp == [vote |-> "up", prev |-> Absent]

Record == hist' = IF Responds THEN Append(hist, last') ELSE hist

NextUpvotes ==
  \/ Tick /\ Record
  \/ DocCreate(OneCourse, "sidA", OneBody) /\ Record
  \/ \E rid \in ReviewIds : DocVote(OneCourse, rid, NewUp) /\ Record
  \/ \E p \in Procs : RelCreateStart(p, OneCourse, "sidA", OneBody) /\ Record
  \/ \E p \in Procs : RelCreateInsert(p) /\ Record
  \/ \E p \in Procs, rid \in ReviewIds : RelVoteFetch(p, OneCourse, rid, NewUp) /\ Record
  \/ \E p \in Procs : RelVotePersist(p) /\ Record

SpecUpvotes == Init /\ [][NextUpvotes]_vars

---------------------------------------------------------------------------
(* One voter on a fresh review: the store holds the one review that a      *)
(* create request of a signed-in user has just left, and valid vote        *)
(* requests for it arrive one after the other, each after the response to  *)
(* the one before; the responses are recorded in hist.                     *)

FreshReview == BuildReview(OneCourse, "sidA", OneBody, 1)

AllIdle == \A p \in Procs : req[p] = IdleReq

InitScenario ==
  /\ env \in {ConfiguredEnv, BareEnv}
  /\ usingSupabase = UsingSupabaseOf(env)
  /\ sessions = SessionsFile
  /\ codes = NoCodes
  /\ file = IF usingSupabase THEN [c \in Courses |-> <<>>]
            ELSE JsonCreateReview([c \in Courses |-> <<>>], OneCourse, FreshReview)
  /\ reviews = IF usingSupabase THEN {RowOf(FreshReview)} ELSE {}
  /\ review_replies = {}
  /\ now = 1
  /\ req = [p \in Procs |-> IdleReq]
  /\ last = IdleReq
  /\ nreq = 0
  /\ hist = <<>>
  /\ vt = VtIdle
  /\ mig = MigIdle

NextScenario ==
  \/ \E body \in [vote : ValidVotes, prev : ValidPrevs] :
       DocVote(OneCourse, FreshReview.id, body) /\ Record
  \/ \E p \in Procs, body \in [vote : ValidVotes, prev : ValidPrevs] :
       AllIdle /\ RelVoteFetch(p, OneCourse, FreshReview.id, body) /\ Record
  \/ \E p \in Procs : RelVotePersist(p) /\ Record

SpecScenario == InitScenario /\ [][NextScenario]_vars

---------------------------------------------------------------------------
(* Validation: create and reply requests of one signed-in user for one     *)
(* course, with bodies on both sides of every check of the two handlers.   *)

RatingValues ==
  {<<>>, <<5>>, <<0>>, <<6>>, <<"boolean", TRUE>>, <<"string", <<"4">>>>,
   <<"string", <<"a">>>>}

CheckedCreateBodies ==
  {[text |-> t, rating |-> r, hasAuthor |-> FALSE, author |-> <<>>] :
     t \in {GoodText, ShortText, <<"g", "o", "o", "d", "!">>}, r \in RatingValues}

CheckedReplyBodies ==
  {[text |-> t, hasAuthor |-> FALSE, author |-> <<>>] : t \in {<<"y">>, <<" ">>, <<>>}}

NextValidate ==
  \/ Tick /\ UNCHANGED hist
  \/ \E body \in CheckedCreateBodies : DocCreate(OneCourse, "sidA", body) /\ UNCHANGED hist
  \/ \E rid \in ReviewIds, body \in CheckedReplyBodies :
       DocReply(OneCourse, rid, "sidA", body) /\ UNCHANGED hist
  \/ \E p \in Procs, body \in CheckedCreateBodies :
       RelCreateStart(p, OneCourse, "sidA", body) /\ UNCHANGED hist
  \/ \E p \in Procs : RelCreateInsert(p) /\ UNCHANGED hist
  \/ \E p \in Procs, rid \in ReviewIds, body \in CheckedReplyBodies :
       RelReplyStart(p, OneCourse, rid, "sidA", body) /\ UNCHANGED hist
  \/ \E p \in Procs : RelReplyCheck(p) /\ UNCHANGED hist
  \/ \E p \in Procs : RelReplyInsert(p) /\ UNCHANGED hist

SpecValidate == Init /\ [][NextValidate]_vars

---------------------------------------------------------------------------
(* The vote updater on its own: given counters, then up to MaxHist valid   *)
(* transitions applied one after the other.                                *)

Counters == [upvotes : 0..MaxCount, downvotes : 0..MaxCount]

InitVote ==
  /\ env = BareEnv
  /\ usingSupabase = UsingSupabaseOf(env)
  /\ sessions = SessionsFile
  /\ codes = NoCodes
  /\ file = [c \in Courses |-> <<>>]
  /\ reviews = {}
  /\ review_replies = {}
  /\ now = 1
  /\ req = [p \in Procs |-> IdleReq]
  /\ last = IdleReq
  /\ nreq = 0
  /\ hist = <<>>
  /\ vt \in {[c0 |-> c, c |-> c, hist |-> <<>>] : c \in Counters}
  /\ mig = MigIdle

ApplyVote(prev, vote) ==
  /\ Len(vt.hist) < MaxHist
  /\ vt' = [vt EXCEPT !.c = VoteUpdater(prev, vote, @),
                      !.hist = Append(@, <<prev, vote>>)]
  /\ UNCHANGED <<env, usingSupabase, sessions, codes, file, reviews, review_replies, now, req,
                 last, nreq, hist, mig>>

NextVote == \E prev \in ValidPrevs, vote \in ValidVotes : ApplyVote(prev, vote)

SpecVote == InitVote /\ [][NextVote]_vars

---------------------------------------------------------------------------
(* The review list: GET /api/courses/:slug/reviews.  The handler looks the *)
(* session up again after the provider's read, so the session that let the *)
(* request past requireAuth may be gone by then (sid = NoSid).             *)

\* the order of Array.prototype.sort's comparator: negative puts a first
Score(r) == r.upvotes - r.downvotes
TimeOf(r) == IF "created_at" \in DOMAIN r THEN r.created_at ELSE 0
CompareScoreOnly(a, b) == Score(b) - Score(a)

Compare(a, b) ==
  IF Score(b) # Score(a) THEN Score(b) - Score(a) ELSE TimeOf(b) - TimeOf(a)

\* x goes behind every element it does not have to precede (a stable sort)
SortInsert(sorted, x) ==
  LET later == {i \in 1..Len(sorted) : Compare(sorted[i], x) > 0}
  IN IF later = {} THEN Append(sorted, x)
     ELSE SubSeq(sorted, 1, MinOf(later) - 1) \o <<x>>
            \o SubSeq(sorted, MinOf(later), Len(sorted))

RECURSIVE SortFrom(_, _, _)
SortFrom(list, i, sorted) ==
  IF i > Len(list) THEN sorted ELSE SortFrom(list, i + 1, SortInsert(sorted, list[i]))

SortList(list) == SortFrom(list, 1, <<>>)

\* { replies: [], upvotes: 0, downvotes: 0, ...r }
WithDefaults(r) == r @@ [replies |-> <<>>, upvotes |-> 0, downvotes |-> 0]

JsonGetReviewsByCourse(f, course) ==
  [i \in 1..Len(f[course]) |-> WithDefaults(f[course][i])]

Perms(S) ==
  {s \in [1..Cardinality(S) -> S] : \A i, j \in DOMAIN s : i # j => s[i] # s[j]}

\* a review row with its reply rows embedded, in any order
JoinedRows(row, replyRows) ==
  {row @@ [replies |-> s] : s \in Perms({x \in replyRows : x.review_id = row.id})}

\* the results select(...).eq('course_id', ...).order('created_at', desc) can give
SupaGetReviewsByCourse(rows, replyRows, course) ==
  LET mine == {r \in rows : r.course_id = course}
      joined == UNION {JoinedRows(r, replyRows) : r \in mine}
  IN {s \in [1..Cardinality(mine) -> joined] :
        \A i, j \in DOMAIN s : i < j => s[i].id # s[j].id /\ s[i].created_at >= s[j].created_at}

HasPoster(rec) == "poster_email" \in DOMAIN rec /\ rec.poster_email # NullEmail

AdminAuthorKeepsAuthor(sid, rec) == rec

\* copy.author = String(copy.poster_email).split('@')[0], for an admin
AdminAuthor(sid, rec) ==
  IF Truthy(AllowAdmin(sid)) /\ HasPoster(rec)
    THEN [rec EXCEPT !.author = LocalPart(rec.poster_email)]
    ELSE rec

\* allowAdmin || (sessionEmail && copy.poster_email && ... === sessionEmail);
\* Absent is undefined, a value res.json leaves out
CanDelete(sid, copy) ==
  IF Truthy(AllowAdmin(sid)) THEN "true"
  ELSE IF GetSessionEmail(sid) = NullEmail THEN "null"
  ELSE IF "poster_email" \notin DOMAIN copy THEN Absent
  ELSE IF copy.poster_email = NullEmail THEN "null"
  ELSE IF ToLowerCase(copy.poster_email) = ToLowerCase(GetSessionEmail(sid)) THEN "true"
  ELSE "false"

RedactEmailOnly(sid, rec) ==
  IF Truthy(AllowAdmin(sid)) THEN rec
  ELSE [k \in DOMAIN rec \ {"poster_email"} |-> rec[k]]

\* if (!allowAdmin){ delete copy.poster_email; delete copy.poster_sid; }
Redact(sid, rec) ==
  IF Truthy(AllowAdmin(sid)) THEN rec
  ELSE [k \in DOMAIN rec \ {"poster_email", "poster_sid"} |-> rec[k]]

OutReply(sid, rep) == Redact(sid, AdminAuthor(sid, rep))

OutReview(sid, r) ==
  LET copy == AdminAuthor(sid, r)
      can == CanDelete(sid, copy)
      marked == IF can = Absent THEN copy ELSE copy @@ [can_delete |-> can]
      shown == Redact(sid, marked)
  IN [shown EXCEPT !.replies = [j \in 1..Len(@) |-> OutReply(sid, @[j])]]

\* reviewsStore.getReviewsByCourse of the active provider: the results it
\* may give
GetReviewsByCourse(course) ==
  IF usingSupabase
    THEN SupaGetReviewsByCourse(reviews, review_replies, course)
    ELSE {JsonGetReviewsByCourse(file, course)}

\* the handler's list for one result of the provider: copied, marked,
\* redacted, then sorted
ListOf(sid, raw) == SortList([i \in DOMAIN raw |-> OutReview(sid, raw[i])])

\* the lists the handler may answer with, one for each order in which the
\* provider may return the rows
ListOutputs(course, sid) ==
  {ListOf(sid, raw) : raw \in GetReviewsByCourse(course)}

List(course, sid) ==
  /\ \E out \in ListOutputs(course, sid) :
       last' = Respond(NewReq("list", course, 0, sid, <<>>), 200, out)
  /\ UNCHANGED <<env, usingSupabase, sessions, codes, file, reviews, review_replies, now, req,
                 nreq, hist, vt, mig>>

\* GET /api/admin/reviews: the reviews of every course as the JSON file holds
\* them, whichever provider the other routes use, with the poster as author
AdminCopy(rec) ==
  IF HasPoster(rec) THEN [rec EXCEPT !.author = LocalPart(rec.poster_email)] ELSE rec

AdminProcessed(f) ==
  [c \in Courses |->
     [i \in 1..Len(f[c]) |->
        LET copy == AdminCopy(f[c][i])
        IN IF "replies" \in DOMAIN copy
             THEN [copy EXCEPT !.replies = [j \in 1..Len(@) |-> AdminCopy(@[j])]]
             ELSE copy]]

AdminReviews(sid) ==
  /\ Authenticated(sid)
  /\ last' = IF ~IsAdmin(sid)
               THEN Respond(NewReq("admin", Absent, 0, sid, <<>>), 403, <<>>)
               ELSE Respond(NewReq("admin", Absent, 0, sid, <<>>), 200, AdminProcessed(file))
  /\ UNCHANGED <<env, usingSupabase, sessions, codes, file, reviews, review_replies, now, req,
                 nreq, hist, vt, mig>>

\* Stored lists of up to MaxStored reviews of one course, as the handlers,
\* the earlier version of the server (no poster, no counters) and an import
\* of foreign data (mixed-case poster_email) leave them.
\* <<poster, reply>>: who posted the review and the reply it carries ("two":
\* two replies, the later one in front, as addReply's unshift leaves them)
PosterShapes ==
  {<<"legacy", "none">>, <<"legacy", "legacy">>, <<"ann", "none">>, <<"ann", "byAnn">>,
   <<"ANN", "none">>, <<"jules", "byAnn">>, <<"ann", "two">>}

\* <<poster, reply, created_at, upvotes>>
Shapes == {<<ps[1], ps[2], t, u>> : ps \in PosterShapes, t \in 1..MaxNow, u \in 0..1}

StoredReply(rid, shape) ==
  LET base == [id |-> 10 + rid, review_id |-> rid, author |-> <<"y">>,
               text |-> <<"y">>, created_at |-> MaxNow]
  IN IF shape = "byAnn"
       THEN base @@ [poster_email |-> AnnEmail, poster_sid |-> "sidA"]
       ELSE base

StoredReview(id, shape) ==
  LET base == [id |-> id, course_id |-> OneCourse, rating |-> <<5>>, author |-> <<"x">>,
               text |-> GoodText, created_at |-> shape[3], status |-> "published",
               replies |-> CASE shape[2] = "none" -> <<>>
                             [] shape[2] = "two" ->
                                  <<[StoredReply(id, "byAnn") EXCEPT !.id = 20 + id],
                                    [StoredReply(id, "byAnn") EXCEPT !.created_at = 1]>>
                             [] OTHER -> <<StoredReply(id, shape[2])>>]
      email == CASE shape[1] = "ann" -> AnnEmail
                 [] shape[1] = "ANN" -> <<"A", "@", "O">>
                 [] OTHER -> JulesEmail
  IN IF shape[1] = "legacy" THEN base
     ELSE base @@ [poster_email |-> email,
                   poster_sid |-> IF shape[1] = "jules" THEN "sidJ" ELSE "sidA",
                   upvotes |-> shape[4], downvotes |-> 0]

StoredLists(max) ==
  UNION {{[i \in 1..n |-> StoredReview(i, f[i])] : f \in [1..n -> Shapes]} :
           n \in 0..max}

\* the columns a row has where the document has no key
RowDefaults == [poster_email |-> NullEmail, poster_sid |-> NoSid]

InitList ==
  /\ env \in {ConfiguredEnv, BareEnv}
  /\ usingSupabase = UsingSupabaseOf(env)
  /\ sessions = SessionsFile
  /\ codes = NoCodes
  /\ \E list \in StoredLists(MaxStored) :
       IF usingSupabase
         THEN /\ file = [c \in Courses |-> <<>>]
              /\ reviews = {RowOf(WithDefaults(list[i]) @@ RowDefaults) : i \in DOMAIN list}
              /\ review_replies =
                   UNION {{list[i].replies[j] @@ RowDefaults :
                             j \in DOMAIN list[i].replies} : i \in DOMAIN list}
         ELSE /\ file = [c \in Courses |-> IF c = OneCourse THEN list ELSE <<>>]
              /\ reviews = {}
              /\ review_replies = {}
  /\ now = MaxNow
  /\ req = [p \in Procs |-> IdleReq]
  /\ last = IdleReq
  /\ nreq = 0
  /\ hist = <<>>
  /\ vt = VtIdle
  /\ mig = MigIdle

NextList ==
  \/ \E sid \in SIDs : List(OneCourse, sid)
  \/ \E sid \in SIDs : AdminReviews(sid)

SpecList == InitList /\ [][NextList]_vars

---------------------------------------------------------------------------
(* The poster of a review: create requests of Ann and of Jules for one     *)
(* course, some with a body that names somebody else as poster, and the    *)
(* votes, replies and lists that follow.                                   *)

\* a body with the keys poster_email and poster_sid, which the handler does
\* not read
ForgedBody == OneBody @@ [poster_email |-> JulesEmail, poster_sid |-> "sidJ"]

OneReply == [text |-> <<"y">>, hasAuthor |-> FALSE, author |-> <<>>]

NextPoster ==
  \/ Tick /\ UNCHANGED hist
  \/ \E sid \in SIDs, body \in {OneBody, ForgedBody} :
       DocCreate(OneCourse, sid, body) /\ UNCHANGED hist
  \/ \E rid \in ReviewIds : DocVote(OneCourse, rid, NewUp) /\ UNCHANGED hist
  \/ \E rid \in ReviewIds, sid \in SIDs :
       DocReply(OneCourse, rid, sid, OneReply) /\ UNCHANGED hist
  \/ \E p \in Procs, sid \in SIDs, body \in {OneBody, ForgedBody} :
       RelCreateStart(p, OneCourse, sid, body) /\ UNCHANGED hist
  \/ \E p \in Procs : RelCreateInsert(p) /\ UNCHANGED hist
  \/ \E p \in Procs, rid \in ReviewIds :
       RelVoteFetch(p, OneCourse, rid, NewUp) /\ UNCHANGED hist
  \/ \E p \in Procs : RelVotePersist(p) /\ UNCHANGED hist
  \/ \E p \in Procs, rid \in ReviewIds, sid \in SIDs :
       RelReplyStart(p, OneCourse, rid, sid, OneReply) /\ UNCHANGED hist
  \/ \E p \in Procs : RelReplyCheck(p) /\ UNCHANGED hist
  \/ \E p \in Procs : RelReplyInsert(p) /\ UNCHANGED hist
  \/ \E sid \in SIDs : List(OneCourse, sid)

SpecPoster == Init /\ [][NextPoster]_vars

---------------------------------------------------------------------------
(* The process started in any environment, then serving one course *)

InitBoot ==
  /\ env \in Envs
  /\ usingSupabase = UsingSupabaseOf(env)
  /\ sessions = SessionsFile
  /\ codes = NoCodes
  /\ file = [c \in Courses |-> <<>>]
  /\ reviews = {}
  /\ review_replies = {}
  /\ now = 1
  /\ req = [p \in Procs |-> IdleReq]
  /\ last = IdleReq
  /\ nreq = 0
  /\ hist = <<>>
  /\ vt = VtIdle
  /\ mig = MigIdle

NextBoot ==
  \/ Tick /\ UNCHANGED hist
  \/ DocCreate(OneCourse, "sidA", OneBody) /\ UNCHANGED hist
  \/ \E p \in Procs : RelCreateStart(p, OneCourse, "sidA", OneBody) /\ UNCHANGED hist
  \/ \E p \in Procs : RelCreateInsert(p) /\ UNCHANGED hist
  \/ List(OneCourse, "sidA")

SpecBoot == InitBoot /\ [][NextBoot]_vars

---------------------------------------------------------------------------
(* Lists and deletes over stored reviews of every shape: what the list     *)
(* tells a requester about deleting, and what the delete handler does.     *)

NextCapability ==
  \/ \E sid \in SIDs : List(OneCourse, sid)
  \/ \E rid \in ReviewIds, sid \in SIDs : DocDelete(OneCourse, rid, sid) /\ UNCHANGED hist
  \/ \E p \in Procs, rid \in ReviewIds, sid \in SIDs :
       RelDeleteLoad(p, OneCourse, rid, sid) /\ UNCHANGED hist
  \/ \E p \in Procs : RelDeletePerform(p) /\ UNCHANGED hist

SpecCapability == InitList /\ [][NextCapability]_vars

---------------------------------------------------------------------------
(* Ann's requests for one course, deletes among them, with the responses   *)
(* recorded in hist.                                                       *)

NextAfterDelete ==
  \/ Tick /\ Record
  \/ DocCreate(OneCourse, "sidA", OneBody) /\ Record
  \/ \E rid \in ReviewIds : DocVote(OneCourse, rid, NewUp) /\ Record
  \/ \E rid \in ReviewIds : DocReply(OneCourse, rid, "sidA", OneReply) /\ Record
  \/ \E rid \in ReviewIds : DocDelete(OneCourse, rid, "sidA") /\ Record
  \/ \E p \in Procs : RelCreateStart(p, OneCourse, "sidA", OneBody) /\ Record
  \/ \E p \in Procs : RelCreateInsert(p) /\ Record
  \/ \E p \in Procs, rid \in ReviewIds : RelVoteFetch(p, OneCourse, rid, NewUp) /\ Record
  \/ \E p \in Procs : RelVotePersist(p) /\ Record
  \/ \E p \in Procs, rid \in ReviewIds :
       RelReplyStart(p, OneCourse, rid, "sidA", OneReply) /\ Record
  \/ \E p \in Procs : RelReplyCheck(p) /\ Record
  \/ \E p \in Procs : RelReplyInsert(p) /\ Record
  \/ \E p \in Procs, rid \in ReviewIds : RelDeleteLoad(p, OneCourse, rid, "sidA") /\ Record
  \/ \E p \in Procs : RelDeletePerform(p) /\ Record

SpecAfterDelete == Init /\ [][NextAfterDelete]_vars

---------------------------------------------------------------------------
(* Sign-in by a code sent by e-mail: POST /api/auth/request-code and       *)
(* POST /api/auth/verify-code.  Both handlers read and write their files   *)
(* before anything is awaited.  In this part now counts seconds, and the   *)
(* domain 'ohs.stanford.edu' is written "o".                               *)

AUTH_CODE_TTL_SECONDS == 900
AUTH_CODE_REQUEST_COOLDOWN_SECONDS == 30

\* the instants at which the clock is read: the start, the cooldown of a
\* code of the start over, that code as old as a code may get and older,
\* and a code of the second instant too old
AuthTimes ==
  {1, 1 + AUTH_CODE_REQUEST_COOLDOWN_SECONDS, 1 + AUTH_CODE_TTL_SECONDS,
   2 + AUTH_CODE_TTL_SECONDS,
   2 + AUTH_CODE_REQUEST_COOLDOWN_SECONDS + AUTH_CODE_TTL_SECONDS}

\* ('' + Math.floor(100000 + Math.random() * 900000)).slice(0, 6): six
\* random digits, here one
CodeStrings == {<<"1">>, <<"2">>}

\* crypto.randomBytes(16).toString('hex'): an id no session has
NewSids == {"sid1", "sid2"}

DigitChar(n) == CHOOSE ch \in {"0", "1", "2", "3", "4", "5", "6", "7", "8", "9"} :
                  DigitValue(ch) = n

\* String(code) of the code of a request body: <<"string", s>> or the
\* one-digit <<"number", n>>
StringOfCode(code) == IF code[1] = "string" THEN code[2] ELSE <<DigitChar(code[2])>>

\* trimmed.endsWith('@ohs.stanford.edu')
EndsWithOhs(e) == Len(e) >= 2 /\ e[Len(e) - 1] = "@" /\ e[Len(e)] = "o"

\* codes[trimmed]
CodeOf(cs, trimmed) == IF trimmed \in DOMAIN cs THEN cs[trimmed] ELSE NoCode

\* age < AUTH_CODE_REQUEST_COOLDOWN_SECONDS
InCooldown(rec, t) == rec # NoCode /\ t - rec.created_at < AUTH_CODE_REQUEST_COOLDOWN_SECONDS

\* age > AUTH_CODE_TTL_SECONDS
Expired(rec, t) == t - rec.created_at > AUTH_CODE_TTL_SECONDS

RemoveCodeKeepsIt(cs, trimmed) == cs

\* delete codes[trimmed]
RemoveCode(cs, trimmed) == [cs EXCEPT ![trimmed] = NoCode]

\* sessions[id] = { email, created_at }
CreateSession(ss, id, email) ==
  [x \in DOMAIN ss \cup {id} |-> IF x = id THEN email ELSE ss[x]]

AuthEmails == {<<>>, <<" ", "A", "@", "O">>, JulesEmail, <<"a", "@", "x">>}
AuthCodes == {<<>>, <<"string", <<"1">>>>, <<"string", <<"2">>>>, <<"number", 1>>}

RequestCode(body) ==
  /\ nreq < MaxReqs
  /\ LET r == NewReq("request-code", "", 0, NoSid, body)
         trimmed == ToLowerCase(Trim(body.email))
     IN IF body.email = <<>> \/ ~EndsWithOhs(trimmed)
          THEN /\ last' = Respond(r, 400, <<>>)
               /\ codes' = codes
        ELSE IF InCooldown(CodeOf(codes, trimmed), now)
          THEN /\ last' = Respond(r, 429, <<>>)
               /\ codes' = codes
          ELSE /\ \E code \in CodeStrings :
                    codes' = [codes EXCEPT ![trimmed] = [code |-> code, created_at |-> now]]
               /\ last' = Respond(r, 200, <<>>)
  /\ nreq' = nreq + 1
  /\ UNCHANGED <<env, usingSupabase, sessions, file, reviews, review_replies, now, req,
                 vt, mig>>

VerifyCode(body) ==
  /\ nreq < MaxReqs
  /\ LET r == NewReq("verify-code", "", 0, NoSid, body)
         trimmed == ToLowerCase(Trim(body.email))
         rec == CodeOf(codes, trimmed)
     IN IF body.email = <<>> \/ body.code = <<>>
          THEN /\ last' = Respond(r, 400, <<>>)
               /\ UNCHANGED <<sessions, codes>>
        ELSE IF rec = NoCode \/ rec.code # StringOfCode(body.code)
          THEN /\ last' = Respond(r, 400, <<>>)
               /\ UNCHANGED <<sessions, codes>>
        ELSE IF Expired(rec, now)
          THEN /\ last' = Respond(r, 400, <<>>)
               /\ UNCHANGED <<sessions, codes>>
          ELSE \E sid \in NewSids \ DOMAIN sessions :
                 /\ sessions' = CreateSession(sessions, sid, trimmed)
                 /\ codes' = RemoveCode(codes, trimmed)
                 /\ last' = Respond(r, 200, sid)
  /\ nreq' = nreq + 1
  /\ UNCHANGED <<env, usingSupabase, file, reviews, review_replies, now, req, vt, mig>>

\* time passes until the next reading of the clock
AuthWait(t) ==
  /\ t > now
  /\ now' = t
  /\ UNCHANGED <<env, usingSupabase, sessions, codes, file, reviews, review_replies, req,
                 last, nreq, vt, mig>>

NextAuth ==
  \/ \E email \in AuthEmails : RequestCode([email |-> email]) /\ Record
  \/ \E email \in AuthEmails, code \in AuthCodes :
       VerifyCode([email |-> email, code |-> code]) /\ Record
  \/ \E t \in AuthTimes : AuthWait(t) /\ Record

SpecAuth == Init /\ [][NextAuth]_vars

---------------------------------------------------------------------------
(* Migration of data/reviews.json into the relational tables, by           *)
(* scripts/migrate_reviews_to_supabase.js ("supabase") or by               *)
(* scripts/import_reviews_to_db.js ("import"), or by running the SQL that  *)
(* the generator script writes ("sql"), up to MaxRuns times over the same  *)
(* file.  file is the document read, reviews and review_replies are the    *)
(* tables written.  A run may be killed between two of its writes, and the *)
(* server may change a row's counters between two runs.                    *)

UndefinedId == 0          \* String(undefined), the id given to a review without one

Field(r, k, default) == IF k \in DOMAIN r THEN r[k] ELSE default

Reverse(seq) == [i \in 1..Len(seq) |-> seq[Len(seq) + 1 - i]]

\* the rows the script builds from one review and from one of its replies
FlattenReview(r, courseId, t) ==
  [id |-> Field(r, "id", UndefinedId),
   course_id |-> Field(r, "course_id", courseId),
   rating |-> Field(r, "rating", <<>>),
   author |-> Field(r, "author", <<>>),
   text |-> Field(r, "text", <<>>),
   created_at |-> Field(r, "created_at", t),
   status |-> Field(r, "status", "published"),
   upvotes |-> Field(r, "upvotes", 0),
   downvotes |-> Field(r, "downvotes", 0),
   poster_email |-> Field(r, "poster_email", NullEmail),
   poster_sid |-> Field(r, "poster_sid", NoSid)]

FlattenReply(rep, r, t) ==
  [id |-> Field(rep, "id", UndefinedId),
   review_id |-> Field(rep, "review_id", Field(r, "id", UndefinedId)),
   author |-> Field(rep, "author", <<>>),
   text |-> Field(rep, "text", <<>>),
   created_at |-> Field(rep, "created_at", t),
   poster_email |-> Field(rep, "poster_email", NullEmail),
   poster_sid |-> Field(rep, "poster_sid", NoSid)]

RECURSIVE FlattenReplies(_, _, _)
FlattenReplies(list, i, t) ==
  IF i > Len(list) THEN <<>>
  ELSE LET reps == Field(list[i], "replies", <<>>)
       IN [j \in 1..Len(reps) |-> FlattenReply(reps[j], list[i], t)]
            \o FlattenReplies(list, i + 1, t)

Ids(rows) == {r.id : r \in rows}
RowsOf(seq) == {seq[i] : i \in 1..Len(seq)}

\* one statement cannot write the same key twice
UpsertFails(chunk) == \E i, j \in 1..Len(chunk) : i # j /\ chunk[i].id = chunk[j].id

\* upsert(chunk, { onConflict: 'id' }): the rows of the chunk replace the rows
\* that have their ids
Upsert(rows, chunk) == {r \in rows : r.id \notin Ids(RowsOf(chunk))} \cup RowsOf(chunk)

RowCounts(rs, rps) == [reviews |-> Cardinality(rs), review_replies |-> Cardinality(rps)]

\* the end of a run; the row counts the first run leaves are kept in once
EndRun(m, rs, rps) ==
  [m EXCEPT !.pc = "idle", !.todo = <<>>, !.cur = <<>>, !.rows = <<>>,
            !.how = "completed",
            !.once = IF m.run = 1 THEN <<RowCounts(rs, rps)>> ELSE @]

\* INSERT ... ON CONFLICT (id) DO NOTHING
InsertIfAbsent(rows, row) == IF row.id \in Ids(rows) THEN rows ELSE rows \cup {row}

\* the INSERT statements the generator writes: each review of the stored
\* list, followed by its replies; a missing id or created_at is NULL
RECURSIVE SqlStatements(_, _)
SqlStatements(list, i) ==
  IF i > Len(list) THEN <<>>
  ELSE LET r == list[i]
           reps == Field(r, "replies", <<>>)
       IN <<[table |-> "reviews",
             row |-> [FlattenReview(r, OneCourse, 0) EXCEPT
                        !.status = Field(r, "status", <<>>)]]>>
            \o [j \in 1..Len(reps) |->
                  [table |-> "replies", row |-> FlattenReply(reps[j], r, 0)]]
            \o SqlStatements(list, i + 1)

\* BEGIN; ...; COMMIT; -- a statement that fails (NULL primary key, missing
\* parent review) leaves the transaction rolled back
RECURSIVE SqlExec(_, _, _)
SqlExec(stmts, i, db) ==
  IF i > Len(stmts) THEN db
  ELSE LET st == stmts[i]
       IN IF st.row.id = UndefinedId THEN [db EXCEPT !.ok = FALSE]
          ELSE IF st.table = "reviews"
            THEN SqlExec(stmts, i + 1, [db EXCEPT !.reviews = InsertIfAbsent(@, st.row)])
          ELSE IF st.row.review_id \notin Ids(db.reviews) THEN [db EXCEPT !.ok = FALSE]
          ELSE SqlExec(stmts, i + 1,
                       [db EXCEPT !.review_replies = InsertIfAbsent(@, st.row)])

MigrateStart(script) ==
  /\ mig.pc = "idle"
  /\ mig.run < MaxRuns
  /\ mig.script \in {"none", script}
  /\ mig' = [mig EXCEPT
       !.script = script,
       !.run = @ + 1,
       !.pc = CASE script = "supabase" -> "reviews"
                [] script = "import" -> "review"
                [] OTHER -> "transaction",
       !.todo = CASE script = "supabase" ->
                       [i \in 1..Len(file[OneCourse]) |->
                          FlattenReview(file[OneCourse][i], OneCourse, now)]
                  [] script = "import" -> Reverse(file[OneCourse])
                  [] OTHER -> SqlStatements(file[OneCourse], 1),
       !.rows = IF script = "supabase" THEN FlattenReplies(file[OneCourse], 1, now)
                ELSE <<>>]
  /\ UNCHANGED <<env, usingSupabase, sessions, codes, file, reviews, review_replies, now, req,
                 last, nreq, hist, vt>>

\* await batchInsert('reviews', reviews)
SupaUpsertReviews ==
  /\ mig.script = "supabase" /\ mig.pc = "reviews"
  /\ IF UpsertFails(mig.todo)
       THEN /\ reviews' = reviews
            /\ mig' = EndRun(mig, reviews, review_replies)
       ELSE /\ reviews' = Upsert(reviews, mig.todo)
            /\ mig' = IF Len(mig.rows) > 0 THEN [mig EXCEPT !.pc = "replies"]
                      ELSE EndRun(mig, reviews', review_replies)
  /\ UNCHANGED <<env, usingSupabase, sessions, codes, file, review_replies, now, req, last, nreq,
                 hist, vt>>

\* await batchInsert('review_replies', replies)
SupaUpsertReplies ==
  /\ mig.script = "supabase" /\ mig.pc = "replies"
  /\ IF UpsertFails(mig.rows) \/ \E i \in 1..Len(mig.rows) : mig.rows[i].review_id \notin Ids(reviews)
       THEN review_replies' = review_replies
       ELSE review_replies' = Upsert(review_replies, mig.rows)
  /\ mig' = EndRun(mig, reviews, review_replies')
  /\ UNCHANGED <<env, usingSupabase, sessions, codes, file, reviews, now, req, last, nreq, hist, vt>>

\* psql runs the generated file
SqlTransaction ==
  /\ mig.script = "sql" /\ mig.pc = "transaction"
  /\ LET db == SqlExec(mig.todo, 1,
                       [reviews |-> reviews, review_replies |-> review_replies, ok |-> TRUE])
     IN /\ reviews' = IF db.ok THEN db.reviews ELSE reviews
        /\ review_replies' = IF db.ok THEN db.review_replies ELSE review_replies
  /\ mig' = EndRun(mig, reviews', review_replies')
  /\ UNCHANGED <<env, usingSupabase, sessions, codes, file, now, req, last, nreq, hist, vt>>

\* the process is killed between two writes
MigAbort ==
  /\ mig.pc # "idle"
  /\ mig' = [mig EXCEPT !.pc = "idle", !.todo = <<>>, !.cur = <<>>, !.rows = <<>>,
                        !.how = "aborted", !.aborted = TRUE]
  /\ UNCHANGED <<env, usingSupabase, sessions, codes, file, reviews, review_replies, now, req,
                 last, nreq, hist, vt>>

\* between two runs the server, now on the tables, takes a new up-vote for a
\* migrated review
MigVote(rid) ==
  /\ mig.pc = "idle" /\ mig.run >= 1
  /\ \E r \in Matching(reviews, OneCourse, rid) :
       /\ r.upvotes < MaxCount
       /\ reviews' = SupaUpdate(reviews, OneCourse, rid,
                                VoteUpdater(Absent, "up", [upvotes |-> r.upvotes,
                                                           downvotes |-> r.downvotes]))
  /\ UNCHANGED <<env, usingSupabase, sessions, codes, file, review_replies, now, req, last, nreq,
                 hist, vt, mig>>

\* review.id = review.id || ('r_' + Date.now())
ImportDefaultId(r, t) == Field(r, "id", t)

\* the next review of the reversed list: db.createReview, whose failure skips
\* the replies of the review
ImportReview ==
  /\ mig.script = "import" /\ mig.pc = "review" /\ Len(mig.todo) > 0
  /\ LET r == Head(mig.todo)
         review == [FlattenReview(r, OneCourse, now) EXCEPT !.id = ImportDefaultId(r, now)]
     IN IF review.id \in Ids(reviews)
          THEN /\ reviews' = reviews
               /\ mig' = [mig EXCEPT !.todo = Tail(@)]
          ELSE /\ reviews' = reviews \cup {review}
               /\ mig' = [mig EXCEPT !.todo = Tail(@),
                                     !.pc = "reply",
                                     !.cur = <<review.id>>,
                                     !.rows = Reverse(Field(r, "replies", <<>>))]
  /\ UNCHANGED <<env, usingSupabase, sessions, codes, file, review_replies, now, req, last, nreq,
                 hist, vt>>

\* the next reply of the review just inserted: db.createReply, whose failure
\* skips the replies that remain; after the last one the loop goes on
ImportReply ==
  /\ mig.script = "import" /\ mig.pc = "reply"
  /\ IF Len(mig.rows) = 0
       THEN /\ review_replies' = review_replies
            /\ mig' = [mig EXCEPT !.pc = "review", !.cur = <<>>]
       ELSE LET rp == Head(mig.rows)
                reply == [FlattenReply(rp, <<>>, now) EXCEPT
                            !.id = ImportDefaultId(rp, now), !.review_id = mig.cur[1]]
            IN IF reply.id \in Ids(review_replies)
                 THEN /\ review_replies' = review_replies
                      /\ mig' = [mig EXCEPT !.pc = "review", !.cur = <<>>, !.rows = <<>>]
                 ELSE /\ review_replies' = review_replies \cup {reply}
                      /\ mig' = [mig EXCEPT !.rows = Tail(@)]
  /\ UNCHANGED <<env, usingSupabase, sessions, codes, file, reviews, now, req, last, nreq, hist, vt>>

\* console.log('Import complete'); process.exit(0)
ImportComplete ==
  /\ mig.script = "import" /\ mig.pc = "review" /\ Len(mig.todo) = 0
  /\ mig' = EndRun(mig, reviews, review_replies)
  /\ UNCHANGED <<env, usingSupabase, sessions, codes, file, reviews, review_replies, now, req,
                 last, nreq, hist, vt>>

MigTick ==
  /\ now < MaxNow + MaxMigTicks
  /\ now' = now + 1
  /\ UNCHANGED <<env, usingSupabase, sessions, codes, file, reviews, review_replies, req, last,
                 nreq, hist, vt, mig>>

\* The documents migrated: up to MaxStored reviews of one course, each with
\* an id of the server ('r_1', 'r_2') or without one, and with no reply or
\* one reply that has an id or has none; a "stray" reply has an id and names
\* the other review as its review_id.
InputShapes == {0, 1, 2} \X {"none", "withId", "noId", "stray"}

InputReply(i, shape) ==
  LET base == [author |-> <<"y">>, text |-> <<"y">>]
      own == IF shape[2] \in {"withId", "stray"}
               THEN base @@ [id |-> 10 + i, created_at |-> MaxNow]
             ELSE base
  IN IF shape[2] = "stray" THEN own @@ [review_id |-> 3 - shape[1]]
     ELSE IF shape[1] # 0 THEN own @@ [review_id |-> shape[1]]
     ELSE own

InputReview(i, shape) ==
  LET base == [text |-> GoodText,
               replies |-> IF shape[2] = "none" THEN <<>> ELSE <<InputReply(i, shape)>>]
  IN IF shape[1] = 0 THEN base
     ELSE base @@ [id |-> shape[1], course_id |-> OneCourse, rating |-> <<5>>,
                   author |-> <<"x">>, created_at |-> shape[1], status |-> "published",
                   upvotes |-> 1, downvotes |-> 0,
                   poster_email |-> AnnEmail, poster_sid |-> "sidA"]

Documents(max) ==
  UNION {{[i \in 1..n |-> InputReview(i, f[i])] : f \in [1..n -> InputShapes]} :
           n \in 0..max}

InitMigrate ==
  /\ env = ConfiguredEnv
  /\ usingSupabase = UsingSupabaseOf(env)
  /\ sessions = SessionsFile
  /\ codes = NoCodes
  /\ \E list \in Documents(MaxStored) : file = [c \in Courses |-> IF c = OneCourse THEN list ELSE <<>>]
  /\ reviews = {}
  /\ review_replies = {}
  /\ now = MaxNow + 1
  /\ req = [p \in Procs |-> IdleReq]
  /\ last = IdleReq
  /\ nreq = 0
  /\ hist = <<>>
  /\ vt = VtIdle
  /\ mig = MigIdle

NextMigrate ==
  \/ \E script \in {"supabase", "import", "sql"} : MigrateStart(script)
  \/ SupaUpsertReviews
  \/ SupaUpsertReplies
  \/ ImportReview
  \/ ImportReply
  \/ ImportComplete
  \/ SqlTransaction
  \/ MigAbort
  \/ \E rid \in Ids(reviews) : MigVote(rid)
  \/ MigTick

SpecMigrate == InitMigrate /\ [][NextMigrate]_vars

---------------------------------------------------------------------------
(* Properties *)

Store == <<file, reviews, review_replies>>

\* the reviews a read of the course would find
StoredReviews(course) ==
  IF usingSupabase THEN {r \in reviews : r.course_id = course}
  ELSE {file[course][i] : i \in 1..Len(file[course])}

\* the replies stored for review rid of the course
StoredReplies(course, rid) ==
  IF usingSupabase THEN {x \in review_replies : x.review_id = rid}
  ELSE UNION {{r.replies[j] : j \in 1..Len(r.replies)} :
                r \in {x \in StoredReviews(course) : x.id = rid}}

AllStoredReviews == UNION {StoredReviews(c) : c \in Courses}

\* C1: in every reachable state, every stored review has upvotes >= 0 and
\* downvotes >= 0, and the vote reconciler never returns a negative counter.
C1_CountersNeverNegative ==
  /\ \A r \in AllStoredReviews : r.upvotes >= 0 /\ r.downvotes >= 0
  /\ \A c \in Counters, prev \in ValidPrevs, vote \in ValidVotes :
       /\ VoteUpdater(prev, vote, c).upvotes >= 0
       /\ VoteUpdater(prev, vote, c).downvotes >= 0

\* an up-vote was retracted from a review whose upvotes were already 0
C1_RetractAtZero ==
  /\ last.kind = "vote" /\ last.status = 200
  /\ last.body = [vote |-> "up", prev |-> "up"]
  /\ last.out = [upvotes |-> 0, downvotes |-> 0]
  /\ \E r \in StoredReviews(last.course) : r.id = last.rid /\ r.upvotes = 0

\* the transition that undoes <<prev, vote>>: a new vote is undone by its
\* retraction, a retraction by the new vote, a switch by the switch back
InverseOf(t) ==
  IF t[1] = Absent THEN <<t[2], t[2]>>
  ELSE IF t[1] = t[2] THEN <<Absent, t[2]>>
  ELSE <<t[2], t[1]>>

RoundTrip == Len(vt.hist) = 2 /\ vt.hist[2] = InverseOf(vt.hist[1])

\* the counter the first transition of the round trip decrements
FirstDecrements == IF vt.hist[1][1] = "up" THEN "upvotes" ELSE "downvotes"

\* C2 as stated: for all counters (u, d) >= 0 and every valid transition,
\* the reconciler followed by the exact inverse transition returns (u, d).
C2_RoundTripReturns == RoundTrip => vt.c = vt.c0

\* C2: the round trip returns (u, d) when the first transition is a new vote
\* or the counter it decrements is at least 1; when that counter is 0 it
\* comes back as 1 and the other counter comes back unchanged.
C2_RoundTripFloored ==
  RoundTrip =>
    IF vt.hist[1][1] = Absent \/ vt.c0[FirstDecrements] >= 1
      THEN vt.c = vt.c0
      ELSE vt.c = [vt.c0 EXCEPT ![FirstDecrements] = 1]

\* a switch from up to down and back, starting with no upvotes
C2_SwitchBackAtZero ==
  /\ RoundTrip
  /\ vt.hist[1] = <<"up", "down">>
  /\ vt.c0.upvotes = 0
  /\ vt.c.upvotes = 1

\* the recorded responses that satisfy ok
Count(ok(_)) == Cardinality({i \in 1..Len(hist) : ok(hist[i])})

CreatedOnce(rid) ==
  LET made(h) == h.kind = "create" /\ h.status = 201 /\ h.out.id = rid
  IN Count(made) = 1

UpvotesAccepted(rid) ==
  LET up(h) == h.kind = "vote" /\ h.status = 200 /\ h.rid = rid
  IN Count(up)

\* C3: when k vote requests {vote: 'up', prev: none} for one review have all
\* succeeded and none is in flight, the stored upvotes of the review are its
\* initial value (0 at creation) plus k, in either store variant.
C3_UpvotesAddUp ==
  (\A p \in Procs : req[p].pc = "idle") =>
    \A r \in StoredReviews(OneCourse) :
      CreatedOnce(r.id) => r.upvotes = UpvotesAccepted(r.id)

\* the requester's session e-mail is the poster's, compared without case
IsPoster(sid, review) ==
  /\ GetSessionEmail(sid) # NullEmail
  /\ "poster_email" \in DOMAIN review
  /\ review.poster_email # NullEmail
  /\ ToLowerCase(review.poster_email) = ToLowerCase(GetSessionEmail(sid))

\* C6: a delete request of a signed-in requester for an existing review is
\* answered Forbidden and leaves the store as it was when the requester is
\* neither an admin nor the review's poster; a delete by an admin or by the
\* poster is answered 200 and removes the review.
C6_DeleteAuthorization ==
  [][ (/\ Responds
       /\ last'.kind = "delete"
       /\ Authenticated(last'.sid)
       /\ last'.status # 404) =>
        IF IsAdmin(last'.sid) \/ IsPoster(last'.sid, last'.local)
          THEN /\ last'.status = 200
               /\ IF usingSupabase
                    THEN \A r \in reviews' :
                           ~(r.id = last'.rid /\ r.course_id = last'.course)
                    ELSE Len(file'[last'.course]) = Len(file[last'.course]) - 1
          ELSE /\ last'.status = 403
               /\ Store' = Store ]_vars

\* Ann was refused the deletion of a review posted by Jules, which is still stored
C6_RefusedStranger ==
  /\ last.kind = "delete" /\ last.status = 403
  /\ last.sid = "sidA"
  /\ last.local.poster_email = JulesEmail
  /\ \E r \in StoredReviews(last.course) : r.id = last.rid

\* C7: after a delete of review R was answered 200, a read of R finds no
\* review and no reply whose review_id is R is stored, in either variant.
C7_DeletedIsGone ==
  (last.kind = "delete" /\ last.status = 200) =>
    /\ \A r \in StoredReviews(last.course) : r.id # last.rid
    /\ StoredReplies(last.course, last.rid) = {}

ReviewExists(course, rid) == \E r \in StoredReviews(course) : r.id = rid

\* C8: a signed-in reply request with a valid body for a review id that is not
\* in the course when the request is answered gets NotFound and writes nothing,
\* also when the review was deleted after the handler's existence check.
C8_ReplyToMissingReview ==
  [][ (/\ Responds
       /\ last'.kind = "reply"
       /\ Authenticated(last'.sid)
       /\ Len(Trim(last'.body.text)) >= 1
       /\ ~ReviewExists(last'.course, last'.rid)) =>
        (last'.status = 404 /\ Store' = Store) ]_vars

\* C9: a vote request whose vote is not 'up' or 'down', or whose prev is not
\* 'up', 'down' or absent, is answered with a validation error without
\* reaching the provider, and the store is left as it was.
C9_InvalidVoteRejected ==
  [][ /\ \A p \in Procs :
           req'[p].kind = "vote" =>
             /\ req'[p].body.vote \in {"up", "down"}
             /\ req'[p].body.prev \in {"up", "down", Absent}
      /\ (/\ Responds
          /\ last'.kind = "vote"
          /\ \/ last'.body.vote \notin {"up", "down"}
             \/ last'.body.prev \notin {"up", "down", Absent}) =>
           (last'.status = 400 /\ Store' = Store) ]_vars

\* a vote 'sideways' for a stored review was refused
C9_RefusedSideways ==
  /\ last.kind = "vote" /\ last.status = 400
  /\ last.body.vote = "sideways"
  /\ \E r \in StoredReviews(last.course) : r.id = last.rid

\* the stored review an outward object was made from
StoredAs(o) == CHOOSE r \in StoredReviews(last.course) : r.id = o.id

\* C4: for a requester who is not an admin, no review and no nested reply
\* returned by the list handler has a poster_email or poster_sid key,
\* whatever is stored and whatever the session (none, or the poster's own).
C4_NoPosterKeysForNonAdmin ==
  (last.kind = "list" /\ ~IsAdmin(last.sid)) =>
    \A i \in DOMAIN last.out :
      /\ {"poster_email", "poster_sid"} \cap DOMAIN last.out[i] = {}
      /\ \A j \in DOMAIN last.out[i].replies :
           {"poster_email", "poster_sid"} \cap DOMAIN last.out[i].replies[j] = {}

\* Ann was listed a review she posted that carries a reply she posted
C4_PosterListsOwnReview ==
  /\ last.kind = "list" /\ last.sid = "sidA"
  /\ \E i \in DOMAIN last.out :
       /\ IsPoster("sidA", StoredAs(last.out[i]))
       /\ "poster_sid" \in DOMAIN StoredAs(last.out[i])
       /\ \E x \in StoredReplies(last.course, last.out[i].id) : HasPoster(x)
       /\ Len(last.out[i].replies) = 1

\* C5: every review returned by the list handler has can_delete true
\* exactly when the requester is an admin or the session e-mail is non-null
\* and equals the review's poster_email ignoring case, and false in every
\* other case (no session, poster_email null, another e-mail).
C5_CanDeleteIsBoolean ==
  last.kind = "list" =>
    \A i \in DOMAIN last.out :
      /\ "can_delete" \in DOMAIN last.out[i]
      /\ last.out[i].can_delete =
           IF IsAdmin(last.sid) \/ IsPoster(last.sid, StoredAs(last.out[i]))
             THEN "true" ELSE "false"

\* C10: when the migration has run twice to its end over the same document, the tables
\* hold as many review rows and reply rows as they held after the first run.
C10_SecondRunAddsNoRow ==
  (mig.run = 2 /\ mig.pc = "idle" /\ ~mig.aborted) =>
    RowCounts(reviews, review_replies) = mig.once[1]


\* C11: a step of a migration run leaves every row that is already in the
\* tables as it is, the counters the server has changed since the first run
\* included.
C11_MigrationKeepsRows ==
  [][mig.pc # "idle" => (reviews \subseteq reviews' /\ review_replies \subseteq review_replies')]_vars


\* a document in which every review and every reply has an id and no two
\* reviews share one: the rows of a run over it do not depend on the clock
WellFormed(list) ==
  /\ \A i \in 1..Len(list) :
       /\ "id" \in DOMAIN list[i]
       /\ \A j \in 1..Len(list[i].replies) : "id" \in DOMAIN list[i].replies[j]
  /\ \A i, j \in 1..Len(list) : list[i].id = list[j].id => i = j

SansCounters(rows) == {[r EXCEPT !.upvotes = 0, !.downvotes = 0] : r \in rows}

\* the rows one run from start to end leaves in empty tables
RowsOfOneRun(list) ==
  [reviews |-> SansCounters({FlattenReview(list[i], OneCourse, 0) : i \in 1..Len(list)}),
   review_replies |-> RowsOf(FlattenReplies(list, 1, 0))]

TablesNow == [reviews |-> SansCounters(reviews), review_replies |-> review_replies]

\* C12: when a run was killed and the next run went to its end, the tables
\* hold the review rows and the reply rows that one run from start to end
\* leaves (the counters, which the server may change, set aside).
C12_RerunAfterAbortCompletes ==
  (/\ mig.run = 2 /\ mig.pc = "idle" /\ mig.aborted /\ mig.how = "completed"
   /\ WellFormed(file[OneCourse]))
    => TablesNow = RowsOfOneRun(file[OneCourse])


\* the counter a vote names, and the other one
CounterOf(v) == IF v = "up" THEN "upvotes" ELSE "downvotes"
OtherCounter(v) == IF v = "up" THEN "downvotes" ELSE "upvotes"

\* the updater has just been applied with this prev and this vote
Applied(prev, vote) == vt'.hist = Append(vt.hist, <<prev, vote>>)

\* C13: a vote whose prev is the vote itself takes 1 from the counter of
\* that vote, never below 0, and leaves the other counter as it was.
C13_Retraction ==
  [][\A v \in ValidVotes :
       Applied(v, v) =>
         /\ vt'.c[CounterOf(v)] = (IF vt.c[CounterOf(v)] = 0 THEN 0
                                   ELSE vt.c[CounterOf(v)] - 1)
         /\ vt'.c[OtherCounter(v)] = vt.c[OtherCounter(v)]]_vars

\* a down-vote was retracted while the other counter was positive
C13_RetractedDown ==
  /\ vt.hist = <<<<"down", "down">>>>
  /\ vt.c0 = [upvotes |-> 1, downvotes |-> 1]
  /\ vt.c = [upvotes |-> 1, downvotes |-> 0]

\* C14: a vote without a prev adds exactly 1 to the counter of that vote and
\* leaves the other counter as it was.
C14_NewVote ==
  [][\A v \in ValidVotes :
       Applied(Absent, v) =>
         /\ vt'.c[CounterOf(v)] = vt.c[CounterOf(v)] + 1
         /\ vt'.c[OtherCounter(v)] = vt.c[OtherCounter(v)]]_vars

\* a first down-vote was counted while the review had an up-vote
C14_NewDown ==
  /\ vt.hist = <<<<Absent, "down">>>>
  /\ vt.c0 = [upvotes |-> 1, downvotes |-> 0]
  /\ vt.c = [upvotes |-> 1, downvotes |-> 1]

\* C15: a vote whose prev is the other vote takes 1 from the counter of
\* prev, never below 0, and adds exactly 1 to the counter of the vote.
C15_Switch ==
  [][\A p, v \in ValidVotes :
       (p # v /\ Applied(p, v)) =>
         /\ vt'.c[CounterOf(p)] = (IF vt.c[CounterOf(p)] = 0 THEN 0
                                   ELSE vt.c[CounterOf(p)] - 1)
         /\ vt'.c[CounterOf(v)] = vt.c[CounterOf(v)] + 1]_vars

\* a switch from up to down met an up counter of 0
C15_SwitchAtZero ==
  /\ vt.hist = <<<<"up", "down">>>>
  /\ vt.c0 = [upvotes |-> 0, downvotes |-> 1]
  /\ vt.c = [upvotes |-> 0, downvotes |-> 2]


\* the three votes of one voter: up, then a switch to down, then the
\* retraction of the down-vote
ScenarioVotes ==
  <<[vote |-> "up", prev |-> Absent], [vote |-> "down", prev |-> "up"],
    [vote |-> "down", prev |-> "down"]>>

ScenarioCounters ==
  <<[upvotes |-> 1, downvotes |-> 0], [upvotes |-> 0, downvotes |-> 1],
    [upvotes |-> 0, downvotes |-> 0]>>

\* the first n responses answer the first n votes of the scenario
ScenarioUpTo(n) ==
  /\ Len(hist) >= n
  /\ \A i \in 1..n : hist[i].kind = "vote" /\ hist[i].body = ScenarioVotes[i]

\* C16: on a fresh review the votes up, down after up, down after down of one
\* voter are answered with the counters (1,0), (0,1), (0,0) in that order,
\* and the counters of every answer are the counters stored for the review.
C16_ScenarioCounters ==
  /\ \A n \in 1..Len(ScenarioVotes) :
       ScenarioUpTo(n) => hist[n].status = 200 /\ hist[n].out = ScenarioCounters[n]
  /\ hist # <<>> =>
       \A r \in StoredReviews(OneCourse) :
         [upvotes |-> r.upvotes, downvotes |-> r.downvotes] = hist[Len(hist)].out

\* the third vote of the scenario has been answered and the review is stored
C16_ScenarioDone ==
  /\ ScenarioUpTo(Len(ScenarioVotes))
  /\ Len(hist) = Len(ScenarioVotes)
  /\ StoredReviews(OneCourse) # {}


\* C17: the list the list handler returns is in descending order of
\* upvotes - downvotes, and reviews of equal score are in descending order
\* of created_at, with either provider.
C17_ListSorted ==
  (last.kind = "list" /\ last.status = 200) =>
    \A i, j \in DOMAIN last.out :
      i < j =>
        LET a == last.out[i]
            b == last.out[j]
        IN \/ a.upvotes - a.downvotes > b.upvotes - b.downvotes
           \/ /\ a.upvotes - a.downvotes = b.upvotes - b.downvotes
              /\ a.created_at >= b.created_at

\* two reviews of equal score, stored with the older one in front, were
\* listed from the JSON file with the later one in front
C17_TieReordered ==
  /\ last.kind = "list" /\ last.status = 200 /\ ~usingSupabase
  /\ Len(last.out) = 2
  /\ last.out[1].upvotes - last.out[1].downvotes = last.out[2].upvotes - last.out[2].downvotes
  /\ last.out[1].created_at > last.out[2].created_at
  /\ file[last.course][1].id = last.out[2].id

\* C18: in the list the list handler returns, the replies of every review
\* are in descending order of created_at, with either provider.
C18_RepliesNewestFirst ==
  (last.kind = "list" /\ last.status = 200) =>
    \A i \in DOMAIN last.out :
      \A j, k \in DOMAIN last.out[i].replies :
        j < k => last.out[i].replies[j].created_at >= last.out[i].replies[k].created_at


\* the part of an e-mail address in front of its first '@'
BeforeAt(e) ==
  CHOOSE pre \in {SubSeq(e, 1, k) : k \in 0..Len(e)} :
    /\ \A m \in 1..Len(pre) : pre[m] # "@"
    /\ Len(pre) = Len(e) \/ e[Len(pre) + 1] = "@"

\* the author an admin is shown for the stored review or reply s
ShownToAdmin(o, s) ==
  o.author = IF HasPoster(s) THEN BeforeAt(s.poster_email) ELSE s.author

StoredReplyAs(rid, o) == CHOOSE x \in StoredReplies(OneCourse, rid) : x.id = o.id

\* C19: for an admin, the list handler and the admin route return every
\* review and every reply with the part of its poster_email in front of '@'
\* as author when it has a poster_email, and with its stored author when it
\* has none.
C19_AdminSeesPoster ==
  /\ (last.kind = "list" /\ last.status = 200 /\ IsAdmin(last.sid)) =>
       \A i \in DOMAIN last.out :
         /\ ShownToAdmin(last.out[i], StoredAs(last.out[i]))
         /\ \A j \in DOMAIN last.out[i].replies :
              ShownToAdmin(last.out[i].replies[j],
                           StoredReplyAs(last.out[i].id, last.out[i].replies[j]))
  /\ (last.kind = "admin" /\ last.status = 200) =>
       \A c \in Courses :
         /\ Len(last.out[c]) = Len(file[c])
         /\ \A i \in DOMAIN last.out[c] :
              /\ ShownToAdmin(last.out[c][i], file[c][i])
              /\ \A j \in DOMAIN last.out[c][i].replies :
                   ShownToAdmin(last.out[c][i].replies[j], file[c][i].replies[j])

\* the admin was listed a review with a poster and a review without one, the
\* first under an author that is not the stored one, with a reply of a poster
C19_AdminListedBoth ==
  /\ last.kind = "list" /\ last.status = 200 /\ last.sid = "sidJ"
  /\ \E i, k \in DOMAIN last.out :
       /\ HasPoster(StoredAs(last.out[i]))
       /\ last.out[i].author # StoredAs(last.out[i]).author
       /\ \E j \in DOMAIN last.out[i].replies : last.out[i].replies[j].author = <<"a">>
       /\ ~HasPoster(StoredAs(last.out[k]))
       /\ last.out[k].author = <<"x">>


\* C20: a delete request of a signed-in requester for an id that no review of
\* the course has when the handler looks it up is answered NotFound, whoever
\* the requester is, and leaves the store as it was.
C20_DeleteMissingReview ==
  [][ (/\ Responds
       /\ nreq' = nreq + 1
       /\ last'.kind = "delete"
       /\ Authenticated(last'.sid)
       /\ ~ \E r \in StoredReviews(last'.course) : r.id = last'.rid) =>
        /\ last'.status = 404
        /\ Store' = Store ]_vars

\* the admin asked for the deletion of an id that the course does not have
\* while another review was stored, and was answered NotFound
C20_AdminToldNotFound ==
  /\ last.kind = "delete" /\ last.status = 404 /\ IsAdmin(last.sid)
  /\ AllStoredReviews # {}
  /\ ~ \E r \in StoredReviews(last.course) : r.id = last.rid


\* C21: in every state and with either provider, the review_id of every
\* stored reply is the id of a review that is in the store; in the JSON file,
\* where a reply is kept inside its review, it is the id of that review.
C21_NoOrphanReply ==
  IF usingSupabase
    THEN \A x \in review_replies : \E r \in reviews : r.id = x.review_id
    ELSE \A c \in Courses : \A i \in DOMAIN file[c] :
           \A j \in DOMAIN file[c][i].replies :
             file[c][i].replies[j].review_id = file[c][i].id

\* a reply request passed the look-up of its review, the review was deleted,
\* and the insert of the reply was refused
C21_InsertAfterDeleteRefused ==
  /\ usingSupabase
  /\ last.kind = "reply" /\ last.status = 500
  /\ ~ \E r \in reviews : r.id = last.rid
  /\ review_replies = {}


\* C22: in every state no two stored reviews have the same id, also after
\* two create requests handled at the same clock value.
C22_ReviewIdsUnique ==
  IF usingSupabase
    THEN \A r, q \in reviews : r.id = q.id => r = q
    ELSE \A c, d \in Courses : \A i \in DOMAIN file[c] : \A j \in DOMAIN file[d] :
           file[c][i].id = file[d][j].id => (c = d /\ i = j)


\* a review as created: no votes, published, in the course of the request
AsCreated(r, course) ==
  /\ r.upvotes = 0 /\ r.downvotes = 0
  /\ r.status = "published"
  /\ r.course_id = course

\* C23: a create request answered 201 returns a review with upvotes 0,
\* downvotes 0, status "published" and the course of the request; until the
\* next response (no write happens without one) the store holds that review
\* and every list of the course returns it.
C23_CreatedIsStoredAndListed ==
  (last.kind = "create" /\ last.status = 201) =>
    /\ AsCreated(last.out, last.course)
    /\ \E r \in StoredReviews(last.course) :
         RowOf(r) = RowOf(last.out) /\ AsCreated(r, last.course)
    /\ \A sid \in SIDs : \A out \in ListOutputs(last.course, sid) :
         \E i \in DOMAIN out : out[i].id = last.out.id /\ AsCreated(out[i], last.course)

\* a second review of a course was created and is stored beside the first
C23_SecondReviewCreated ==
  /\ last.kind = "create" /\ last.status = 201
  /\ \E r, q \in StoredReviews(last.course) : r.id = last.out.id /\ q.id # r.id


\* a JSON value that is a number from 1 to 5
NumberInRange(rating) == Len(rating) = 1 /\ rating[1] >= 1 /\ rating[1] <= 5

\* C24: a create request whose text has fewer than 6 characters or whose
\* rating is present and is not a number from 1 to 5, and a reply request
\* whose text has no character, is answered with a validation error and
\* leaves the store as it was.
C24_InvalidInputRejected ==
  [][ (Responds /\ Authenticated(last'.sid)) =>
        /\ (/\ last'.kind = "create"
            /\ \/ Len(last'.body.text) < 6
               \/ (last'.body.rating # <<>> /\ ~NumberInRange(last'.body.rating))) =>
             (last'.status = 400 /\ Store' = Store)
        /\ (last'.kind = "reply" /\ Len(last'.body.text) < 1) =>
             (last'.status = 400 /\ Store' = Store) ]_vars


\* the fields of a review that say which review it is and who posted it
IdentityOf(r) ==
  [id |-> r.id, course_id |-> r.course_id, created_at |-> r.created_at,
   poster_email |-> r.poster_email, poster_sid |-> r.poster_sid]

Identities ==
  [file |-> [c \in Courses |-> [i \in DOMAIN file[c] |-> IdentityOf(file[c][i])]],
   reviews |-> {IdentityOf(r) : r \in reviews}]

\* C25: the review a create request leaves has the e-mail address and the id
\* of the requester's session as poster_email and poster_sid, whatever the
\* body says; and no step of a vote, a reply or a list changes the id,
\* course_id, created_at, poster_email or poster_sid of a stored review.
C25_PosterFromSessionOnly ==
  [][ /\ (Responds /\ last'.kind = "create" /\ last'.status = 201) =>
           /\ last'.out.poster_email = sessions[last'.sid]
           /\ last'.out.poster_sid = last'.sid
           /\ \E r \in StoredReviews(OneCourse)' : RowOf(r) = RowOf(last'.out)
      /\ ~(Responds /\ last'.kind = "create") => Identities' = Identities ]_vars

\* Ann's create request named Jules as poster, and the review stored says
\* Ann, beside a review that has been voted up
C25_ForgedPosterIgnored ==
  /\ last.kind = "create" /\ last.status = 201
  /\ last.sid = "sidA" /\ last.body = ForgedBody
  /\ \E r, q \in StoredReviews(OneCourse) :
       /\ r.id = last.out.id
       /\ r.poster_email = AnnEmail /\ r.poster_sid = "sidA"
       /\ q.upvotes = 1


---------------------------------------------------------------------------
(* Provider selection against the environment *)

\* SUPABASE_URL and a key are set
CredentialsPresent(e) ==
  /\ e.SUPABASE_URL # <<>>
  /\ \/ e.SUPABASE_SERVICE_KEY # <<>>
     \/ e.SUPABASE_ANON_KEY # <<>>

\* C26: the Supabase provider is the active provider exactly when
\* SUPABASE_URL and a key are set as the process starts, the JSON file
\* provider exactly when they are not, and the provider a response was
\* served by is the one chosen at the start.
C26_ProviderFollowsCredentials ==
  /\ usingSupabase <=> CredentialsPresent(env)
  /\ (last.kind = "create" /\ last.status = 201) =>
       IF CredentialsPresent(env)
         THEN \E r \in reviews : r.id = last.out.id
         ELSE \E i \in DOMAIN file[last.course] : file[last.course][i].id = last.out.id


---------------------------------------------------------------------------
(* The list for provider results that differ in the order of ties *)

Tied(a, b) == Score(a) = Score(b) /\ TimeOf(a) = TimeOf(b)

\* the results that hold the reviews of raw in another order, two reviews
\* changing places only if they are tied
TiePermuted(raw) ==
  {[i \in DOMAIN raw |-> raw[pi[i]]] : pi \in
     {q \in Perms(DOMAIN raw) :
        \A i, j \in DOMAIN raw :
          (i < j /\ q[i] > q[j]) => Tied(WithDefaults(raw[q[i]]), WithDefaults(raw[q[j]]))}}

\* C27: two provider results that differ only in the relative order of
\* reviews with equal upvotes - downvotes and equal created_at are listed
\* as the same sequence of reviews.
C27_TiesListedInOneOrder ==
  \A sid \in SIDs : \A raw \in GetReviewsByCourse(OneCourse) :
    \A other \in TiePermuted(raw) : ListOf(sid, other) = ListOf(sid, raw)


---------------------------------------------------------------------------
(* createReview with an id the store already holds *)

\* C28: createReview for a review whose id is already in the store fails
\* and leaves the store as it was, in both providers: a create that is
\* answered 201 used an id no stored review had, and a create that is
\* refused changes neither the file nor the tables.
C28_DuplicateIdRefused ==
  [][ (Responds /\ last'.kind = "create") =>
        /\ last'.status = 201 =>
             ~ \E r \in AllStoredReviews : r.id = last'.out.id
        /\ last'.status # 201 =>
             /\ file' = file
             /\ reviews' = reviews
             /\ review_replies' = review_replies ]_vars


---------------------------------------------------------------------------
(* A vote on a review the course does not hold *)

\* C29: a vote, valid in itself, on a review id that the course does not
\* hold is answered 404 (neither success nor 500) and changes no stored
\* counter, in the JSON variant and in the Supabase variant alike.
C29_VoteOnMissingIsNotFound ==
  [][ \A c \in Courses, rid \in ReviewIds :
        ( /\ Responds /\ last'.kind = "vote"
          /\ last'.course = c /\ last'.rid = rid
          /\ ValidVoteBody(last'.body)
          /\ ~ \E r \in StoredReviews(c) : r.id = rid )
        => /\ last'.status = 404
           /\ file' = file
           /\ reviews' = reviews ]_vars


---------------------------------------------------------------------------
(* What deleteReview returns *)

\* the value the active provider's deleteReview returns in this state
DeleteReviewReturns(course, rid) ==
  IF usingSupabase THEN SupaDeleteReviewReturns(reviews, course, rid)
  ELSE JsonDeleteReviewReturns(file, course, rid)

\* C30: deleteReview for an id the course does not hold removes nothing and
\* returns false, and it returns true only when it removed a review, in
\* both providers: at every delete the handler lets through to the provider,
\* the value returned says whether a review left the store.
C30_DeleteReturnsWhetherRemoved ==
  [][ \A c \in Courses, rid \in ReviewIds :
        ( /\ Responds /\ last'.kind = "delete" /\ last'.status = 200
          /\ last'.course = c /\ last'.rid = rid )
        => /\ DeleteReviewReturns(c, rid) <=> (\E r \in StoredReviews(c) : r.id = rid)
           /\ DeleteReviewReturns(c, rid) <=>
                (IF usingSupabase THEN Cardinality(reviews') < Cardinality(reviews)
                 ELSE Len(file'[c]) < Len(file[c])) ]_vars


---------------------------------------------------------------------------
(* What a vote and a reply leave alone *)

\* a review without its counters
CountersAside(r) == [k \in DOMAIN r \ {"upvotes", "downvotes"} |-> r[k]]

\* a review without its replies
RepliesAside(r) == [k \in DOMAIN r \ {"replies"} |-> r[k]]

\* between this state and the next, at most the counters of one review
\* with id rid of course c differ
OnlyCountersChange(c, rid) ==
  /\ review_replies' = review_replies
  /\ IF usingSupabase
       THEN /\ file' = file
            /\ Cardinality(reviews') = Cardinality(reviews)
            /\ \A r \in reviews :
                 \/ r \in reviews'
                 \/ /\ r.course_id = c /\ r.id = rid
                    /\ \E q \in reviews' : CountersAside(q) = CountersAside(r)
       ELSE /\ reviews' = reviews
            /\ \A d \in Courses \ {c} : file'[d] = file[d]
            /\ Len(file'[c]) = Len(file[c])
            /\ \A i \in DOMAIN file[c] :
                 \/ file'[c][i] = file[c][i]
                 \/ /\ file[c][i].id = rid
                    /\ CountersAside(file'[c][i]) = CountersAside(file[c][i])
            /\ Cardinality({i \in DOMAIN file[c] : file'[c][i] # file[c][i]}) <= 1

\* between this state and the next, one reply joins the replies of one
\* review with id rid of course c, and nothing else differs
OnlyOneReplyAdded(c, rid) ==
  /\ reviews' = reviews
  /\ IF usingSupabase
       THEN /\ file' = file
            /\ review_replies \subseteq review_replies'
            /\ Cardinality(review_replies' \ review_replies) = 1
            /\ \A x \in review_replies' \ review_replies : x.review_id = rid
       ELSE /\ review_replies' = review_replies
            /\ \A d \in Courses \ {c} : file'[d] = file[d]
            /\ Len(file'[c]) = Len(file[c])
            /\ \A i \in DOMAIN file[c] :
                 \/ file'[c][i] = file[c][i]
                 \/ /\ file[c][i].id = rid
                    /\ RepliesAside(file'[c][i]) = RepliesAside(file[c][i])
                    /\ Len(file'[c][i].replies) = Len(file[c][i].replies) + 1
                    /\ Tail(file'[c][i].replies) = file[c][i].replies
            /\ Cardinality({i \in DOMAIN file[c] : file'[c][i] # file[c][i]}) = 1

\* C31: a vote answered with success changes nothing but the upvotes and
\* downvotes of the review voted on (its other fields, its replies, the
\* other reviews and the other courses stay as they were), and a reply
\* answered with success adds one reply to the review replied to and
\* changes nothing else, the replies already there included.
C31_VoteAndReplyFrame ==
  [][ \A c \in Courses, rid \in ReviewIds :
        /\ ( /\ Responds /\ last'.kind = "vote" /\ last'.status = 200
             /\ last'.course = c /\ last'.rid = rid ) => OnlyCountersChange(c, rid)
        /\ ( /\ Responds /\ last'.kind = "reply" /\ last'.status = 201
             /\ last'.course = c /\ last'.rid = rid ) => OnlyOneReplyAdded(c, rid) ]_vars

\* a review that carries a reply has been voted up
C31_VotedWithReply ==
  /\ last.kind = "vote" /\ last.status = 200
  /\ \E r \in StoredReviews(last.course) :
       /\ r.id = last.rid /\ r.upvotes = 1
       /\ StoredReplies(last.course, last.rid) # {}


---------------------------------------------------------------------------
(* The order in which a migration writes the reviews *)

\* C32: a migration writes the reviews of a course in the reverse of their
\* stored order: of two stored reviews with ids of their own, the one
\* later in the stored list is in the table before the one earlier in the
\* list is written.
C32_LaterStoredWrittenFirst ==
  [][ \A i, j \in DOMAIN file[OneCourse] :
        LET r == file[OneCourse][i]
            q == file[OneCourse][j]
        IN ( /\ i < j
             /\ "id" \in DOMAIN r /\ "id" \in DOMAIN q /\ r.id # q.id
             /\ mig.pc # "idle"
             /\ r.id \notin Ids(reviews) /\ r.id \in Ids(reviews') )
           => q.id \in Ids(reviews) ]_vars


---------------------------------------------------------------------------
(* The rows a migration writes *)

\* C33: every reply row a migration writes has the id of the review the
\* reply was embedded in as its review_id, whatever review_id the embedded
\* reply carried, and a review without id, created_at or counters is
\* written with values in their place: no row has the id of a missing id
\* or a missing created_at, and the counters are numbers.
C33_RowsForcedAndDefaulted ==
  /\ \A i \in DOMAIN file[OneCourse] :
       LET r == file[OneCourse][i]
           reps == Field(r, "replies", <<>>)
       IN \A j \in DOMAIN reps : \A x \in review_replies :
            ("id" \in DOMAIN reps[j] /\ x.id = reps[j].id) =>
              /\ x.review_id \in Ids(reviews)
              /\ "id" \in DOMAIN r => x.review_id = r.id
  /\ \A row \in reviews :
       /\ row.id # UndefinedId
       /\ row.created_at # 0
       /\ row.upvotes \in Nat /\ row.downvotes \in Nat


---------------------------------------------------------------------------
(* can_delete of the list against the delete handler *)

\* the list, asked by sid in this state, shows the review rid of course c
\* with can_delete true
ListedDeletable(c, rid, sid) ==
  \E out \in ListOutputs(c, sid) : \E i \in DOMAIN out :
    /\ out[i].id = rid
    /\ "can_delete" \in DOMAIN out[i] /\ out[i].can_delete = "true"

---------------------------------------------------------------------------
(* A deleted review stays deleted *)

\* C35: once a delete of review R has been answered with success, R is
\* absent from the store in every later state, and so are replies of R:
\* no request that read R before the delete writes R, its counters or a
\* reply of R back.
C35_DeletedStaysAbsent ==
  \A k \in DOMAIN hist :
    (hist[k].kind = "delete" /\ hist[k].status = 200) =>
      /\ ~ReviewExists(hist[k].course, hist[k].rid)
      /\ StoredReplies(hist[k].course, hist[k].rid) = {}


---------------------------------------------------------------------------
(* What a successful vote has written *)

\* C36: a vote answered with success and counters has written those
\* counters to a review that is in the store when the write is made; a
\* vote whose review is deleted between its fetch and its persist is not
\* answered with success.
C36_VoteSuccessIsWritten ==
  [][ \A c \in Courses, rid \in ReviewIds :
        ( /\ Responds /\ last'.kind = "vote" /\ last'.status = 200
          /\ last'.course = c /\ last'.rid = rid )
        => /\ ReviewExists(c, rid)
           /\ \E r \in StoredReviews(c)' :
                /\ r.id = rid
                /\ r.upvotes = last'.out.upvotes
                /\ r.downvotes = last'.out.downvotes ]_vars


---------------------------------------------------------------------------
(* The order of the stored lists of the JSON file *)

\* created_at does not increase from the front of the list to its back
NewestFirst(list) ==
  \A i, j \in DOMAIN list : i < j => list[i].created_at >= list[j].created_at

IdsInOrder(list) == [i \in DOMAIN list |-> list[i].id]

\* C37: with the JSON file provider, and a clock that never goes back, the
\* stored list of every course is newest first and so is the reply list of
\* every review; a create and a reply put their entry at the front, and a
\* vote and a delete keep the order of the entries that remain.
C37_StoredNewestFirst ==
  [][ ~usingSupabase =>
        /\ \A c \in Courses :
             /\ NewestFirst(file'[c])
             /\ \A i \in DOMAIN file'[c] : NewestFirst(file'[c][i].replies)
        /\ \A c \in Courses :
             (Responds /\ last'.course = c) =>
               /\ (last'.kind = "create" /\ last'.status = 201) =>
                    file'[c] = <<last'.out>> \o file[c]
               /\ (last'.kind = "reply" /\ last'.status = 201) =>
                    /\ IdsInOrder(file'[c]) = IdsInOrder(file[c])
                    /\ \E i \in DOMAIN file[c] :
                         file'[c][i].replies = <<last'.out>> \o file[c][i].replies
               /\ (last'.kind = "vote" /\ last'.status = 200) =>
                    IdsInOrder(file'[c]) = IdsInOrder(file[c])
               /\ (last'.kind = "delete" /\ last'.status = 200) =>
                    \E i \in DOMAIN file[c] : file'[c] = RemoveAt(file[c], i) ]_vars

\* the older of two stored reviews has been voted up and is still behind
\* the newer one
C37_OlderVotedStaysBehind ==
  /\ ~usingSupabase
  /\ last.kind = "vote" /\ last.status = 200
  /\ Len(file[last.course]) = 2
  /\ file[last.course][1].created_at > file[last.course][2].created_at
  /\ file[last.course][2].id = last.rid
  /\ file[last.course][2].upvotes = 1


---------------------------------------------------------------------------
(* An auth code is used once *)

\* the code stored for the e-mail of the body is the body's code and is not
\* older than a code may get
CodeIsGood(body) ==
  /\ body.email # <<>> /\ body.code # <<>>
  /\ LET rec == CodeOf(codes, ToLowerCase(Trim(body.email)))
     IN /\ rec # NoCode
        /\ rec.code = StringOfCode(body.code)
        /\ now - rec.created_at <= AUTH_CODE_TTL_SECONDS

\* C38: a verify-code request with the stored, unexpired code creates exactly
\* one session, for the e-mail of the request, and removes the code; a
\* verify-code request with a wrong, missing or expired code is refused,
\* creates no session and leaves the stored codes as they are; and a second
\* verify-code request with the code that has just been used is refused
\* and creates no session.
C38_CodeUsedOnce ==
  [][ \A email \in AuthEmails, code \in AuthCodes :
        LET body == [email |-> email, code |-> code]
            trimmed == ToLowerCase(Trim(email))
        IN (Responds /\ last'.kind = "verify-code" /\ last'.body = body) =>
             /\ CodeIsGood(body) =>
                  /\ last'.status = 200
                  /\ \E sid \in DOMAIN sessions' \ DOMAIN sessions :
                       /\ DOMAIN sessions' = DOMAIN sessions \cup {sid}
                       /\ sessions'[sid] = trimmed
                       /\ last'.out = sid
                  /\ \A x \in DOMAIN sessions : sessions'[x] = sessions[x]
                  /\ codes'[trimmed] = NoCode
                  /\ \A e \in DOMAIN codes \ {trimmed} : codes'[e] = codes[e]
             /\ ~CodeIsGood(body) =>
                  /\ last'.status = 400
                  /\ sessions' = sessions
                  /\ codes' = codes
             /\ ( /\ Len(hist) > 0
                  /\ hist[Len(hist)].kind = "verify-code"
                  /\ hist[Len(hist)].status = 200
                  /\ hist[Len(hist)].body = body ) =>
                  /\ last'.status = 400
                  /\ sessions' = sessions ]_vars

\* the code that signed Ann in has been sent again and refused
C38_SecondVerifyRefused ==
  /\ Len(hist) >= 3
  /\ hist[Len(hist) - 1].kind = "verify-code" /\ hist[Len(hist) - 1].status = 200
  /\ hist[Len(hist)].kind = "verify-code" /\ hist[Len(hist)].status = 400
  /\ hist[Len(hist)].body = hist[Len(hist) - 1].body
  /\ Cardinality(DOMAIN sessions \ DOMAIN SessionsFile) = 1
  /\ \E sid \in DOMAIN sessions \ DOMAIN SessionsFile : sessions[sid] = AnnEmail

====
